---- MODULE Spec2Model ----
(***************************************************************************)
(* Model of the CV job-search route (routes/search.js): the relevance      *)
(* scorer, the retry wrapper, the CV fact extractor, the job-search        *)
(* client with its fallback path, and the POST /search-with-cv handler.    *)
(* The POST /generate-questions handler of the interview routes is        *)
(* modelled with the two tables it writes.                                 *)
(*                                                                         *)
(* A JavaScript string is modelled as a sequence of one-character strings  *)
(* (the character ` is written "backtick");                                *)
(* undefined, null and "" are all the empty sequence (they are all falsy   *)
(* in the tests the code makes on them).  Numbers that JavaScript computes *)
(* in floating point are computed here as exact fractions.                 *)
(***************************************************************************)
EXTENDS Integers, Sequences, FiniteSets, TLC

VARIABLES
    \* --- scorer harness (SpecScore) ---
    sPhase,      \* "idle" | "input" | "scored" | "rescored"
    sJob,        \* the normalized job posting being scored
    sCv,         \* the CVFacts record it is scored against
    sScore,      \* last result of calculateRelevanceScore (-1: none yet)
    sPrev,       \* the result before the last skill was added (-1: none)
    sPools       \* what the skill and experience pools added in the last call

scoreVars == <<sPhase, sJob, sCv, sScore, sPrev, sPools>>

VARIABLES
    \* --- retryApiCall: one activation ---
    rPc,         \* "idle" | "call" | "awaiting" | "waiting" | "returned" | "thrown"
    rMax,        \* maxRetries
    rDelay,      \* delay (ms)
    rI,          \* the loop index i
    rInFlight,   \* invocations of apiCall started and not yet settled
    rTimer,      \* duration (ms) of the pending setTimeout, 0 when none
    rLog,        \* history: <<"start", i>>, <<"ok", i>>, <<"fail", i>>, and
                 \* <<"wait", ms>> when a timer of ms has elapsed
    rOutcomes,   \* history: how each settled attempt ended (a result or an error)
    rResult      \* the value returned, or the error thrown, to the caller

retryVars == <<rPc, rMax, rDelay, rI, rInFlight, rTimer, rLog, rOutcomes, rResult>>

VARIABLES
    \* --- one POST /search-with-cv request ---
    pc,            \* where the handler is
    cvText,        \* req.body.cvText
    location,      \* req.body.location ('' when absent)
    apiKey,        \* whether process.env.RAPIDAPI_KEY is set
    modelCalled,   \* history: a generative-model call was issued
    extractCase,   \* history: how the model answered extractCVDetails
    cvDetails,     \* the CVFacts record of the request
    jobs,          \* the job list being built
    primaryQuery,  \* params.query of the primary search request
    fallbackQuery, \* params.query of the fallback search request
    primaryKind,   \* history: how the primary search call ended
    primaryReturned, \* history: number of postings searchJobs returned
    keptJobs,      \* history: number of postings searchAllJobs returned (-1: not yet)
    thrown,        \* the error that reached the handler's catch block, if any
    steps,         \* history: the pipeline steps taken, in order
    response       \* the HTTP response sent (status 0: none yet)

reqVars == <<pc, cvText, location, apiKey, modelCalled, extractCase, cvDetails,
             jobs, primaryQuery, fallbackQuery, primaryKind, primaryReturned,
             keptJobs, thrown, steps, response>>

VARIABLES
    \* --- one call of a function on its own (SpecFn) ---
    fPhase,      \* "idle" | "input" | "done"
    fOp,         \* "none" | "clean" | "filter"
    fArg,        \* the arguments of the call
    fOut         \* what the call returned

fnVars == <<fPhase, fOp, fArg, fOut>>

VARIABLES
    \* --- POST /generate-questions requests, one after the other ---
    qPc,          \* where the handler is
    qBody,        \* req.body: email, cv, jobDescription
    qUser,        \* the row getUserByEmail resolved with
    qSessionId,   \* the insertId createInterviewSession resolved with (0: none)
    qQuestions,   \* number of questions parseQuestionsFromAI returned
    qResponse,    \* the response sent (status 0: none)
    qServed,      \* number of requests finished before this one
    sessions,     \* table interview_sessions
    questionRows  \* table interview_questions

qVars == <<qPc, qBody, qUser, qSessionId, qQuestions, qResponse, qServed, sessions,
           questionRows>>

vars == <<scoreVars, retryVars, reqVars, fnVars, qVars>>

----------------------------------------------------------------------------
(* String primitives of the JavaScript runtime used by the code.           *)

UpperChars == <<"A", "B", "C", "D", "E", "F", "G", "H", "I", "J", "K", "L", "M", "N", "O", "P", "Q", "R", "S", "T", "U", "V", "W", "X", "Y", "Z">>
LowerChars == <<"a", "b", "c", "d", "e", "f", "g", "h", "i", "j", "k", "l", "m", "n", "o", "p", "q", "r", "s", "t", "u", "v", "w", "x", "y", "z">>
DigitChars == <<"0", "1", "2", "3", "4", "5", "6", "7", "8", "9">>

Min(a, b) == IF a <= b THEN a ELSE b
Max(a, b) == IF a >= b THEN a ELSE b

toLowerChar(c) ==
    IF \E i \in 1..Len(UpperChars) : UpperChars[i] = c
    THEN LowerChars[CHOOSE i \in 1..Len(UpperChars) : UpperChars[i] = c]
    ELSE c

toLowerCase(s) == [i \in 1..Len(s) |-> toLowerChar(s[i])]

\* String.prototype.includes: t occurs in s as a contiguous substring.
includes(s, t) ==
    \E i \in 0..(Len(s) - Len(t)) : \A j \in 1..Len(t) : s[i + j] = t[j]

isSpace(c) == c \in {" ", "\t", "\n"}

isDigit(c) == \E i \in 1..Len(DigitChars) : DigitChars[i] = c

digitValue(c) == (CHOOSE i \in 1..Len(DigitChars) : DigitChars[i] = c) - 1

\* String.prototype.trim
trim(s) ==
    IF \A i \in 1..Len(s) : isSpace(s[i])
    THEN << >>
    ELSE LET f == CHOOSE i \in 1..Len(s) :
                      ~isSpace(s[i]) /\ \A k \in 1..(i - 1) : isSpace(s[k])
             l == CHOOSE i \in 1..Len(s) :
                      ~isSpace(s[i]) /\ \A k \in (i + 1)..Len(s) : isSpace(s[k])
         IN  SubSeq(s, f, l)

\* Array.prototype.slice(0, n) and String.prototype.substring(0, n)
slice(seq, n) == SubSeq(seq, 1, Min(n, Len(seq)))

\* Math.round(n / d) for n >= 0, d > 0: halves round up.
MathRound(n, d) == (2 * n + d) \div (2 * d)

----------------------------------------------------------------------------
(* extractSkillsFromDescription                                            *)

commonSkills ==
    << <<"J", "a", "v", "a", "S", "c", "r", "i", "p", "t">>, <<"P", "y", "t", "h", "o", "n">>, <<"J", "a", "v", "a">>, <<"R", "e", "a", "c", "t">>, <<"N", "o", "d", "e", ".", "j", "s">>,
       <<"S", "Q", "L">>, <<"H", "T", "M", "L">>, <<"C", "S", "S">>,
       <<"P", "r", "o", "j", "e", "c", "t", " ", "M", "a", "n", "a", "g", "e", "m", "e", "n", "t">>, <<"C", "o", "m", "m", "u", "n", "i", "c", "a", "t", "i", "o", "n">>, <<"L", "e", "a", "d", "e", "r", "s", "h", "i", "p">>,
       <<"P", "r", "o", "b", "l", "e", "m", " ", "S", "o", "l", "v", "i", "n", "g">>,
       <<"E", "x", "c", "e", "l">>, <<"P", "o", "w", "e", "r", "P", "o", "i", "n", "t">>, <<"S", "a", "l", "e", "s", "f", "o", "r", "c", "e">>, <<"C", "R", "M">>, <<"M", "a", "r", "k", "e", "t", "i", "n", "g">>,
       <<"S", "a", "l", "e", "s">>,
       <<"C", "u", "s", "t", "o", "m", "e", "r", " ", "S", "e", "r", "v", "i", "c", "e">>, <<"D", "a", "t", "a", " ", "A", "n", "a", "l", "y", "s", "i", "s">>, <<"M", "a", "c", "h", "i", "n", "e", " ", "L", "e", "a", "r", "n", "i", "n", "g">>, <<"A", "I">>,
       <<"N", "u", "r", "s", "i", "n", "g">>, <<"H", "e", "a", "l", "t", "h", "c", "a", "r", "e">>, <<"F", "i", "n", "a", "n", "c", "e">>, <<"A", "c", "c", "o", "u", "n", "t", "i", "n", "g">>, <<"L", "e", "g", "a", "l">>,
       <<"E", "d", "u", "c", "a", "t", "i", "o", "n">> >>

MaxRequiredSkills == 8

extractSkillsFromDescription(description) ==
    LET d == toLowerCase(description)
        foundSkills == SelectSeq(commonSkills,
                           LAMBDA skill : includes(d, toLowerCase(skill)))
    IN  slice(foundSkills, MaxRequiredSkills)

----------------------------------------------------------------------------
(* calculateRelevanceScore                                                 *)

\* The predicate of the filter at lines 129-134: the CV skill matches some
\* required skill, as a substring in either direction, ignoring case.
skillMatches(skill, requiredSkills) ==
    \E k \in 1..Len(requiredSkills) :
        \/ includes(toLowerCase(requiredSkills[k]), toLowerCase(skill))
        \/ includes(toLowerCase(skill), toLowerCase(requiredSkills[k]))

matchedSkills(job, cvFacts) ==
    SelectSeq(cvFacts.skills,
              LAMBDA skill : skillMatches(skill, job.requiredSkills))

\* The skill pool applies only when both lists are non-empty (line 128).
skillPoolApplies(job, cvFacts) ==
    Len(job.requiredSkills) > 0 /\ Len(cvFacts.skills) > 0

\* skillMatchPercentage = matchedSkills.length / Math.max(requiredSkills.length, 1)
skillPoolDenominator(job, cvFacts) == Max(Len(job.requiredSkills), 1)

\* skillPoolWeight with a defect: the weight of the skill pool grows with the number of CV skills.
skillPoolWeightPerSkill(job, cvFacts) == 40 * Len(cvFacts.skills)

\* maxPossibleScore += 40
skillPoolWeight(job, cvFacts) == 40

\* `${job.title} ${job.description}`.toLowerCase()
jobTextOf(job) == toLowerCase(job.title \o <<" ">> \o job.description)

\* End of the maximal digit run that starts at i.
digitRunEnd(text, i) ==
    CHOOSE j \in i..Len(text) :
        /\ \A k \in i..j : isDigit(text[k])
        /\ (j = Len(text) \/ ~isDigit(text[j + 1]))

RECURSIVE parseInt(_, _, _)
parseInt(text, i, j) ==
    IF j < i THEN 0 ELSE 10 * parseInt(text, i, j - 1) + digitValue(text[j])

\* First position at or after p that holds no whitespace.
skipSpaces(text, p) ==
    CHOOSE q \in p..(Len(text) + 1) :
        /\ \A k \in p..(q - 1) : isSpace(text[k])
        /\ (q = Len(text) + 1 \/ ~isSpace(text[q]))

\* /(\d+)\+?\s*years?/ tried at position i: the position after the match, or
\* 0 when there is no match starting at i.
matchYearAt(text, i) ==
    IF ~isDigit(text[i]) THEN 0
    ELSE LET j  == digitRunEnd(text, i)
             p1 == IF j + 1 <= Len(text) /\ text[j + 1] = "+" THEN j + 2 ELSE j + 1
             p2 == skipSpaces(text, p1)
         IN  IF p2 + 3 <= Len(text) /\ SubSeq(text, p2, p2 + 3) = <<"y", "e", "a", "r">>
             THEN IF p2 + 4 <= Len(text) /\ text[p2 + 4] = "s"
                  THEN p2 + 5 ELSE p2 + 4
             ELSE 0

\* jobText.match(/(\d+)\+?\s*years?/g), each match already reduced to
\* parseInt(match.match(/\d+/)[0]): the successive non-overlapping matches,
\* left to right.
RECURSIVE yearMatchesFrom(_, _)
yearMatchesFrom(text, i) ==
    IF \E k \in i..Len(text) : matchYearAt(text, k) # 0
    THEN LET k == CHOOSE k \in i..Len(text) :
                      /\ matchYearAt(text, k) # 0
                      /\ \A m \in i..(k - 1) : matchYearAt(text, m) = 0
         IN  <<parseInt(text, k, digitRunEnd(text, k))>>
                 \o yearMatchesFrom(text, matchYearAt(text, k))
    ELSE << >>

yearMatches(text) == yearMatchesFrom(text, 1)

\* penaltyAfterMatch with a defect: the penalty is clamped at -20 from below.
penaltyAfterMatchClamped(experiencePenalty) == Max(experiencePenalty - 10, -20)

\* experiencePenalty = Math.min(experiencePenalty - 10, -20)
penaltyAfterMatch(experiencePenalty) == Min(experiencePenalty - 10, -20)

\* The forEach at lines 162-167, applied to matches k..Len(matches).
RECURSIVE applyYearMatches(_, _, _, _)
applyYearMatches(matches, k, experienceYears, experiencePenalty) ==
    IF k > Len(matches) THEN experiencePenalty
    ELSE applyYearMatches(matches, k + 1, experienceYears,
             IF matches[k] > experienceYears + 1
             THEN penaltyAfterMatch(experiencePenalty)
             ELSE experiencePenalty)

experiencePenaltyOf(job, cvFacts) ==
    LET jobText == jobTextOf(job)
        seniorPenalty ==
            IF /\ \/ includes(jobText, <<"s", "e", "n", "i", "o", "r">>)
                  \/ includes(jobText, <<"l", "e", "a", "d">>)
                  \/ includes(jobText, <<"m", "a", "n", "a", "g", "e", "r">>)
               /\ cvFacts.experienceYears < 3
            THEN -15 ELSE 0
    IN  applyYearMatches(yearMatches(jobText), 1, cvFacts.experienceYears,
                         seniorPenalty)

titleMatchOf(job, cvFacts) ==
    IF \E i \in 1..Len(cvFacts.jobTitles) :
           /\ Len(job.title) > 0
           /\ includes(toLowerCase(job.title), toLowerCase(cvFacts.jobTitles[i]))
    THEN 30 ELSE 0

keywordMatchesOf(job, cvFacts) ==
    Cardinality({i \in 1..Len(cvFacts.searchKeywords) :
        includes(jobTextOf(job), toLowerCase(cvFacts.searchKeywords[i]))})

\* score and maxPossibleScore are kept as the exact fraction
\* num / (sd * kd): sd and kd are the divisors of the skill and keyword pools.
calculateRelevanceScore(job, cvFacts) ==
    LET skillPool == skillPoolApplies(job, cvFacts)
        titlePool == Len(cvFacts.jobTitles) > 0
        kwPool    == Len(cvFacts.searchKeywords) > 0
        sd == IF skillPool THEN skillPoolDenominator(job, cvFacts) ELSE 1
        kd == IF kwPool THEN Len(cvFacts.searchKeywords) ELSE 1
        skillNum == IF skillPool THEN Len(matchedSkills(job, cvFacts)) * 40 ELSE 0
        titleMatch == IF titlePool THEN titleMatchOf(job, cvFacts) ELSE 0
        experiencePenalty == experiencePenaltyOf(job, cvFacts)
        kwNum == IF kwPool THEN keywordMatchesOf(job, cvFacts) * 10 ELSE 0
        maxPossibleScore ==
            (IF skillPool THEN skillPoolWeight(job, cvFacts) ELSE 0)
            + (IF titlePool THEN 30 ELSE 0) + 20 + (IF kwPool THEN 10 ELSE 0)
        num == skillNum * kd + (titleMatch + experiencePenalty) * sd * kd
               + kwNum * sd
    IN  IF maxPossibleScore > 0 /\ num > 0
        THEN MathRound(100 * num, sd * kd * maxPossibleScore)
        ELSE 0

\* What the skill pool (lines 128-138) and the experience pool (lines
\* 151-171) add to score and to maxPossibleScore; the skill pool's addition
\* to score is the exact fraction skillNum / skillDen.
NoPools ==
    [ skillApplies |-> FALSE, skillNum |-> 0, skillDen |-> 1, skillMax |-> 0,
      penalty |-> 0, experienceMax |-> 0 ]

scorePools(job, cvFacts) ==
    LET skillPool == skillPoolApplies(job, cvFacts)
    IN  [ skillApplies  |-> skillPool,
          skillNum      |-> IF skillPool THEN Len(matchedSkills(job, cvFacts)) * 40 ELSE 0,
          skillDen      |-> IF skillPool THEN skillPoolDenominator(job, cvFacts) ELSE 1,
          skillMax      |-> IF skillPool THEN skillPoolWeight(job, cvFacts) ELSE 0,
          penalty       |-> experiencePenaltyOf(job, cvFacts),
          experienceMax |-> 20 ]

----------------------------------------------------------------------------
(* retryApiCall(apiCall, maxRetries = 3, delay = 1000)                     *)

DefaultMaxRetries == 3
DefaultDelay == 1000

\* What the generative model answers when a call succeeds: the response
\* object, whose text() gives the raw text or throws (a blocked answer).
TextResult(text) == [kind |-> "text", text |-> text]
BlockedResult    == [kind |-> "blocked", text |-> << >>]
NoResult         == [kind |-> "none", text |-> << >>]
Undefined        == [kind |-> "undefined", text |-> << >>]
ErrorResult(e)   == [kind |-> "error", text |-> e]

\* The failures a call to the model may raise.
ErrorSamples == { <<"n", "e", "t", "w", "o", "r", "k">>, <<"q", "u", "o", "t", "a">> }

\* retryDelay with a defect: the wait grows linearly instead of doubling.
retryDelayLinear(delay, i) == delay * 2 * i

\* delay * Math.pow(2, i)
retryDelay(delay, i) == delay * 2 ^ i

\* if (i === maxRetries - 1) throw error
isLastAttempt(i, maxRetries) == i = maxRetries - 1

\* rethrownError with a defect: the first error is kept and rethrown.
rethrownErrorFirst(outcomes) == outcomes[1]

\* The error the catch block rethrows: the one it caught.
rethrownError(outcomes) == outcomes[Len(outcomes)]

RetryIdle ==
    /\ rPc = "idle" /\ rMax = 0 /\ rDelay = 0 /\ rI = 0 /\ rInFlight = 0
    /\ rTimer = 0 /\ rLog = << >> /\ rOutcomes = << >> /\ rResult = NoResult

\* The caller enters retryApiCall: let i = 0.
RetryEnter(maxRetries, delay) ==
    /\ rPc' = "call" /\ rMax' = maxRetries /\ rDelay' = delay /\ rI' = 0
    /\ rInFlight' = 0 /\ rTimer' = 0 /\ rLog' = << >> /\ rOutcomes' = << >> /\ rResult' = NoResult

\* The frame is gone once the caller has taken the result.
RetryLeave ==
    /\ rPc' = "idle" /\ rMax' = 0 /\ rDelay' = 0 /\ rI' = 0 /\ rInFlight' = 0
    /\ rTimer' = 0 /\ rLog' = << >> /\ rOutcomes' = << >> /\ rResult' = NoResult

\* for (...; i < maxRetries; ...) try { apiCall() ...: the call is issued.
RetryAttemptStart ==
    /\ rPc = "call" /\ rI < rMax
    /\ rPc' = "awaiting"
    /\ rInFlight' = rInFlight + 1
    /\ rLog' = Append(rLog, <<"start", rI>>)
    /\ UNCHANGED <<rMax, rDelay, rI, rTimer, rOutcomes, rResult>>

\* The loop condition fails (maxRetries <= i): the function ends without a
\* return statement.
RetryLoopExit ==
    /\ rPc = "call" /\ ~(rI < rMax)
    /\ rPc' = "returned"
    /\ rResult' = Undefined
    /\ UNCHANGED <<rMax, rDelay, rI, rInFlight, rTimer, rLog, rOutcomes>>

\* return await apiCall(): the call resolves with `result`.
RetryAttemptSucceed(result) ==
    /\ rPc = "awaiting"
    /\ rPc' = "returned"
    /\ rInFlight' = rInFlight - 1
    /\ rResult' = result
    /\ rLog' = Append(rLog, <<"ok", rI>>)
    /\ rOutcomes' = Append(rOutcomes, result)
    /\ UNCHANGED <<rMax, rDelay, rI, rTimer>>

\* The call rejects with `error`: the catch block logs it and rethrows it on
\* the last attempt; otherwise it starts the timer and awaits it.
RetryAttemptFail(error) ==
    /\ rPc = "awaiting"
    /\ rInFlight' = rInFlight - 1
    /\ rOutcomes' = Append(rOutcomes, ErrorResult(error))
    /\ IF isLastAttempt(rI, rMax)
       THEN /\ rPc' = "thrown"
            /\ rResult' = rethrownError(rOutcomes')
            /\ rTimer' = 0
       ELSE /\ rPc' = "waiting"
            /\ rResult' = rResult
            /\ rTimer' = retryDelay(rDelay, rI)
    /\ rLog' = Append(rLog, <<"fail", rI>>)
    /\ UNCHANGED <<rMax, rDelay, rI>>

\* The timer fires: i++ and the loop goes round.
RetryWaitElapsed ==
    /\ rPc = "waiting"
    /\ rPc' = "call"
    /\ rI' = rI + 1
    /\ rLog' = Append(rLog, <<"wait", rTimer>>)
    /\ rTimer' = 0
    /\ UNCHANGED <<rMax, rDelay, rInFlight, rOutcomes, rResult>>

----------------------------------------------------------------------------
(* Normalization of a raw job record by searchJobs (the primary path).     *)

DescriptionMax == 300

normalizeDescription(raw) ==
    IF Len(raw.job_description) > 0
    THEN slice(raw.job_description, DescriptionMax) \o <<".", ".", ".">>
    ELSE <<"N", "o", " ", "d", "e", "s", "c", "r", "i", "p", "t", "i", "o", "n", " ", "a", "v", "a", "i", "l", "a", "b", "l", "e">>

normalizePrimary(raw) ==
    [ title    |-> IF Len(raw.job_title) > 0 THEN raw.job_title ELSE <<"N", "o", " ", "t", "i", "t", "l", "e">>,
      company  |-> IF Len(raw.employer_name) > 0 THEN raw.employer_name
                   ELSE <<"U", "n", "k", "n", "o", "w", "n", " ", "C", "o", "m", "p", "a", "n", "y">>,
      location |-> IF Len(raw.job_city) > 0 /\ Len(raw.job_state) > 0
                   THEN raw.job_city \o <<",", " ">> \o raw.job_state
                   ELSE IF Len(raw.job_country) > 0 THEN raw.job_country
                   ELSE <<"N", "o", "t", " ", "s", "p", "e", "c", "i", "f", "i", "e", "d">>,
      description    |-> normalizeDescription(raw),
      requiredSkills |-> extractSkillsFromDescription(raw.job_description) ]

----------------------------------------------------------------------------
(* Inputs: the raw records the job-search API may return and the CV facts  *)
(* the generative model may return, drawn from small sample sets.          *)

RawJob(t, e, c, s, k, d) ==
    [ job_title |-> t, employer_name |-> e, job_city |-> c, job_state |-> s,
      job_country |-> k, job_description |-> d ]

\* The second record has the (title, company) key of the first and another
\* city; the third has no city and a country that reads "Remote".
ApiJobSamples ==
    { RawJob(<<"S", "e", "n", "i", "o", "r", " ", "J", "a", "v", "a", " ", "D", "e", "v">>, <<"A", "c", "m", "e">>, <<"B", "e", "r", "l", "i", "n">>, <<"B", "E">>, <<"D", "E">>,
             <<"5", "+", " ", "y", "e", "a", "r", "s", " ", "J", "a", "v", "a", " ", "a", "n", "d", " ", "S", "Q", "L">>),
      RawJob(<<"s", "e", "n", "i", "o", "r", " ", "j", "a", "v", "a", " ", "d", "e", "v", " ">>, <<"A", "C", "M", "E">>, <<"P", "a", "r", "i", "s">>, <<"F", "R">>, <<"F", "R">>,
             <<"J", "a", "v", "a">>),
      RawJob(<<"N", "u", "r", "s", "e">>, << >>, << >>, << >>, <<"R", "e", "m", "o", "t", "e">>, << >>) }

RawJobSamples ==
    ApiJobSamples \cup
    { RawJob(<< >>, <<"I", "n", "i", "t", "e", "c", "h">>, <<"B", "e", "r", "l", "i", "n">>, << >>, << >>,
             <<"t", "e", "a", "m", " ", "l", "e", "a", "d", ",", " ", "1", "0", " ", "y", "e", "a", "r", "s", ",", " ", "1", "2", " ", "y", "e", "a", "r", " ", "s", "a", "l", "e", "s">>) }

SkillSamples   == { <<"j", "a", "v", "a">>, <<"J", "a", "v", "a", "S", "c", "r", "i", "p", "t">>, <<"C", "o", "o", "k", "i", "n", "g">> }
TitleSamples   == { <<"J", "a", "v", "a", " ", "D", "e", "v">>, <<"N", "u", "r", "s", "e">> }
KeywordSamples == { <<"j", "a", "v", "a">>, <<"r", "e", "m", "o", "t", "e">> }
ExperienceSamples == { 0, 2, 5 }

MaxSkills   == 2
MaxTitles   == 1
MaxKeywords == 1

SeqsUpTo(S, n) == UNION { [1..k -> S] : k \in 0..n }

CVFactsSamples ==
    { [ skills |-> sk, experienceYears |-> y, jobTitles |-> jt,
        searchKeywords |-> kw ] :
        sk \in SeqsUpTo(SkillSamples, MaxSkills),
        y  \in ExperienceSamples,
        jt \in SeqsUpTo(TitleSamples, MaxTitles),
        kw \in SeqsUpTo(KeywordSamples, MaxKeywords) }

----------------------------------------------------------------------------
(* cleanJsonResponse                                                       *)

startsWithAt(text, pat, i) ==
    /\ i + Len(pat) - 1 <= Len(text)
    /\ \A j \in 1..Len(pat) : text[i + j - 1] = pat[j]

\* text.replace(/<pat>\s*/g, ''), from position i on.
RECURSIVE removeAllFrom(_, _, _)
removeAllFrom(text, pat, i) ==
    IF \E k \in i..Len(text) : startsWithAt(text, pat, k)
    THEN LET k == CHOOSE k \in i..Len(text) :
                      /\ startsWithAt(text, pat, k)
                      /\ \A m \in i..(k - 1) : ~startsWithAt(text, pat, m)
         IN  SubSeq(text, i, k - 1)
                 \o removeAllFrom(text, pat, skipSpaces(text, k + Len(pat)))
    ELSE SubSeq(text, i, Len(text))

\* indexOf / lastIndexOf of a character, 0-based, -1 when absent.
indexOf(s, c) ==
    IF \E i \in 1..Len(s) : s[i] = c
    THEN (CHOOSE i \in 1..Len(s) : s[i] = c /\ \A k \in 1..(i - 1) : s[k] # c) - 1
    ELSE -1

\* lastIndexOf with a defect: the first occurrence is taken.
lastIndexOfFirst(s, c) == indexOf(s, c)

lastIndexOf(s, c) ==
    IF \E i \in 1..Len(s) : s[i] = c
    THEN (CHOOSE i \in 1..Len(s) : s[i] = c /\ \A k \in (i + 1)..Len(s) : s[k] # c) - 1
    ELSE -1

\* String.prototype.substring(a, b) for 0 <= a, b <= length: the arguments
\* are swapped when a > b.
substring(s, a, b) == SubSeq(s, Min(a, b) + 1, Max(a, b))

cleanJsonResponse(text) ==
    LET cleaned == trim(removeAllFrom(removeAllFrom(text, <<"backtick", "backtick", "backtick", "j", "s", "o", "n">>, 1),
                                      <<"backtick", "backtick", "backtick">>, 1))
        firstBrace == indexOf(cleaned, "{")
        lastBrace  == lastIndexOf(cleaned, "}")
    IN  IF firstBrace # -1 /\ lastBrace # -1
        THEN substring(cleaned, firstBrace, lastBrace + 1)
        ELSE cleaned

----------------------------------------------------------------------------
(* JSON.parse on the texts the sampled model answers reduce to.  A parsed  *)
(* field is a tagged value; NotAString stands for an array element that is *)
(* a (non-zero) number.                                                    *)

NotAString == <<"#number">>

FAbsent   == [t |-> "absent", items |-> << >>, n |-> 0, s |-> << >>]
FArr(a)   == [t |-> "array",  items |-> a,     n |-> 0, s |-> << >>]
FNum(k)   == [t |-> "number", items |-> << >>, n |-> k, s |-> << >>]
FStr(str) == [t |-> "string", items |-> << >>, n |-> 0, s |-> str]

JObject(sk, ey, jt, ind, edu, kw) ==
    [ kind |-> "object", skills |-> sk, experienceYears |-> ey, jobTitles |-> jt,
      industries |-> ind, education |-> edu, searchKeywords |-> kw ]

\* A number, string or boolean: every property read gives undefined.
JPrimitive == [JObject(FAbsent, FAbsent, FAbsent, FAbsent, FAbsent, FAbsent)
                  EXCEPT !.kind = "primitive"]

\* null: a property read throws.
JNull == [JPrimitive EXCEPT !.kind = "null"]

JsonFacts1 == <<"{", "\"", "s", "k", "i", "l", "l", "s", "\"", ":", "[", "\"", "j", "a", "v", "a", "\"", "]", ",", "\"", "e", "x", "p", "e", "r", "i", "e", "n", "c", "e", "Y", "e", "a", "r", "s", "\"", ":", "5", ",", "\"", "j", "o", "b", "T", "i", "t", "l", "e", "s", "\"", ":", "[", "\"", "J", "a", "v", "a", " ", "D", "e", "v", "\"", "]", ",", "\"", "s", "e", "a", "r", "c", "h", "K", "e", "y", "w", "o", "r", "d", "s", "\"", ":", "[", "\"", "j", "a", "v", "a", "\"", "]", "}">>
JsonFacts2 == <<"{", "\"", "s", "k", "i", "l", "l", "s", "\"", ":", "[", "\"", "C", "o", "o", "k", "i", "n", "g", "\"", ",", "\"", "J", "a", "v", "a", "S", "c", "r", "i", "p", "t", "\"", "]", ",", "\"", "e", "x", "p", "e", "r", "i", "e", "n", "c", "e", "Y", "e", "a", "r", "s", "\"", ":", "0", "}">>
JsonFacts3 == <<"{", "\"", "s", "k", "i", "l", "l", "s", "\"", ":", "[", "\"", "j", "a", "v", "a", "\"", "]", ",", "\"", "j", "o", "b", "T", "i", "t", "l", "e", "s", "\"", ":", "[", "\"", "\"", "]", "}">>
JsonFacts4 == <<"{", "\"", "s", "e", "a", "r", "c", "h", "K", "e", "y", "w", "o", "r", "d", "s", "\"", ":", "[", "7", "]", "}">>
JsonFacts5 == <<"{", "\"", "s", "k", "i", "l", "l", "s", "\"", ":", "\"", "j", "a", "v", "a", "\"", ",", "\"", "e", "x", "p", "e", "r", "i", "e", "n", "c", "e", "Y", "e", "a", "r", "s", "\"", ":", "-", "2", ",", "\"", "e", "d", "u", "c", "a", "t", "i", "o", "n", "\"", ":", "7", "}">>

JsonDocs ==
    { [ text  |-> JsonFacts1,
        value |-> JObject(FArr(<< <<"j", "a", "v", "a">> >>), FNum(5), FArr(<< <<"J", "a", "v", "a", " ", "D", "e", "v">> >>),
                          FAbsent, FAbsent, FArr(<< <<"j", "a", "v", "a">> >>)) ],
      [ text  |-> JsonFacts2,
        value |-> JObject(FArr(<< <<"C", "o", "o", "k", "i", "n", "g">>, <<"J", "a", "v", "a", "S", "c", "r", "i", "p", "t">> >>), FNum(0), FAbsent,
                          FAbsent, FAbsent, FAbsent) ],
      [ text  |-> JsonFacts3,
        value |-> JObject(FArr(<< <<"j", "a", "v", "a">> >>), FAbsent, FArr(<< << >> >>),
                          FAbsent, FAbsent, FAbsent) ],
      [ text  |-> JsonFacts4,
        value |-> JObject(FAbsent, FAbsent, FAbsent, FAbsent, FAbsent,
                          FArr(<< NotAString >>)) ],
      [ text  |-> JsonFacts5,
        value |-> JObject(FStr(<<"j", "a", "v", "a">>), FNum(-2), FAbsent, FAbsent, FNum(7),
                          FAbsent) ],
      [ text  |-> <<"4", "2">>,   value |-> JPrimitive ],
      [ text  |-> <<"n", "u", "l", "l">>, value |-> JNull ] }

\* JSON.parse: the value of a well-formed text; any other text is a SyntaxError.
jsonParses(text) == \E d \in JsonDocs : d.text = text

jsonParse(text) == (CHOOSE d \in JsonDocs : d.text = text).value

----------------------------------------------------------------------------
(* extractCVDetails: the part after the model call.                        *)

NotSpecified == <<"N", "o", "t", " ", "s", "p", "e", "c", "i", "f", "i", "e", "d">>

\* The record of the catch block (lines 80-87).
ZeroFacts ==
    [ skills |-> << >>, experienceYears |-> 0, jobTitles |-> << >>,
      industries |-> << >>, education |-> FStr(NotSpecified),
      searchKeywords |-> << >> ]

truthy(f) ==
    \/ f.t = "array"
    \/ f.t = "number" /\ f.n # 0
    \/ f.t = "string" /\ Len(f.s) > 0

arrayOrEmpty(f) == IF f.t = "array" THEN f.items ELSE << >>

\* Lines 70-77: the record built from the parsed details.
typedFacts(details) ==
    [ skills          |-> arrayOrEmpty(details.skills),
      experienceYears |-> IF details.experienceYears.t = "number"
                          THEN details.experienceYears.n ELSE 0,
      jobTitles       |-> arrayOrEmpty(details.jobTitles),
      industries      |-> arrayOrEmpty(details.industries),
      education       |-> IF truthy(details.education) THEN details.education
                          ELSE FStr(NotSpecified),
      searchKeywords  |-> arrayOrEmpty(details.searchKeywords) ]

\* Lines 64-88, given what retryApiCall returned: text(), cleanJsonResponse,
\* JSON.parse and the typed record, or the zero record when any of them throws.
\* [threw |-> an error leaves extractCVDetails, facts |-> the record returned]
Returned(facts) == [threw |-> FALSE, facts |-> facts]
Threw == [threw |-> TRUE, facts |-> ZeroFacts]

\* How an answer of the model is classified (history only).
extractCaseOf(result) ==
    IF result.kind = "error" THEN "failed"
    ELSE IF result.kind # "text" THEN "blocked"
    ELSE IF ~jsonParses(cleanJsonResponse(result.text)) THEN "invalidJson"
    ELSE IF jsonParse(cleanJsonResponse(result.text)).kind # "object" THEN "nonObject"
    ELSE "object"

\* extractOutcome with a defect: no catch block around the body of extractCVDetails.
extractOutcomeNoCatch(result) ==
    IF result.kind # "text" THEN Threw
    ELSE LET cleanedText == cleanJsonResponse(result.text)
         IN  IF ~jsonParses(cleanedText) THEN Threw
             ELSE LET details == jsonParse(cleanedText)
                  IN  IF details.kind = "null" THEN Threw
                      ELSE Returned(typedFacts(details))

extractOutcome(result) ==
    IF result.kind # "text" THEN Returned(ZeroFacts)
    ELSE LET cleanedText == cleanJsonResponse(result.text)
         IN  IF ~jsonParses(cleanedText) THEN Returned(ZeroFacts)
             ELSE LET details == jsonParse(cleanedText)
                  IN  IF details.kind = "null" THEN Returned(ZeroFacts)
                      ELSE Returned(typedFacts(details))

FencedText(pre, json, post) == pre \o <<"backtick", "backtick", "backtick", "j", "s", "o", "n", "\n">> \o json \o <<"\n", "backtick", "backtick", "backtick">> \o post

\* What a successful model call may resolve with.
ModelResultSamples ==
    { TextResult(FencedText(<<"H", "e", "r", "e", " ", "i", "t", " ", "i", "s", ":", "\n">>, JsonFacts1, <<"\n", "D", "o", "n", "e", ".">>)),
      TextResult(JsonFacts2),
      TextResult(FencedText(<< >>, JsonFacts3, << >>)),
      TextResult(JsonFacts4),
      TextResult(JsonFacts5),
      TextResult(<<"S", "o", "r", "r", "y", ",", " ", "I", " ", "c", "a", "n", "n", "o", "t", " ", "d", "o", " ", "t", "h", "a", "t", ".">>),
      TextResult(<<" ", "4", "2", " ">>),
      TextResult(<<"n", "u", "l", "l">>),
      BlockedResult }

----------------------------------------------------------------------------
(* searchAllJobs, searchJobs, applyLocationFilter, fallbackSearch          *)

RECURSIVE join(_, _)
join(terms, sep) ==
    IF Len(terms) = 0 THEN << >>
    ELSE IF Len(terms) = 1 THEN terms[1]
    ELSE terms[1] \o sep \o join(Tail(terms), sep)

\* String.prototype.split(' ')
RECURSIVE splitFrom(_, _)
splitFrom(s, i) ==
    IF \E k \in i..Len(s) : s[k] = " "
    THEN LET k == CHOOSE k \in i..Len(s) :
                      s[k] = " " /\ \A m \in i..(k - 1) : s[m] # " "
         IN  <<SubSeq(s, i, k - 1)>> \o splitFrom(s, k + 1)
    ELSE <<SubSeq(s, i, Len(s))>>

split(s) == splitFrom(s, 1)

\* Lines 274-282: the candidate terms, before the filter.
candidateTerms(cvFacts) ==
    slice(cvFacts.searchKeywords, 2) \o slice(cvFacts.skills, 2)
        \o slice(cvFacts.jobTitles, 1)

\* term && term.trim() throws a TypeError on a truthy term that is no string.
queryBuildThrows(cvFacts) ==
    \E i \in 1..Len(candidateTerms(cvFacts)) :
        candidateTerms(cvFacts)[i] = NotAString

\* Lines 278-284
buildSearchQuery(cvFacts) ==
    join(slice(SelectSeq(candidateTerms(cvFacts),
                         LAMBDA term : Len(term) > 0 /\ Len(trim(term)) > 0), 3),
         <<" ">>)

\* Lines 191-195: the query parameter searchJobs sends.
primarySearchQuery(keywords, place) ==
    LET cleanKeywords == join(slice(split(keywords), 3), <<" ">>)
    IN  IF Len(place) > 0 THEN cleanKeywords \o <<" ">> \o place
        ELSE cleanKeywords

PrimaryLimit  == 30
FallbackLimit == 15

\* .map(job => ({ ... })) of line 225.
mapPrimary(seq) == [i \in 1..Len(seq) |-> normalizePrimary(seq[i])]

\* Lines 335-350: the normalization of the fallback path.
normalizeFallback(raw) ==
    [ normalizePrimary(raw) EXCEPT
        !.location = IF Len(raw.job_city) > 0 /\ Len(raw.job_state) > 0
                     THEN raw.job_city \o <<",", " ">> \o raw.job_state
                     ELSE <<"N", "o", "t", " ", "s", "p", "e", "c", "i", "f", "i", "e", "d">> ]

\* .map(job => ({ ... })) of line 335.
mapFallback(seq) == [i \in 1..Len(seq) |-> normalizeFallback(seq[i])]

locationGiven(place) == Len(place) > 0 /\ Len(trim(place)) > 0

\* jobPassesLocation with a defect: "worldwide" is not recognised.
jobPassesLocationNoWorldwide(job, loc) ==
    LET jobLocation == toLowerCase(job.location)
    IN  \/ includes(jobLocation, loc)
        \/ includes(jobLocation, <<"r", "e", "m", "o", "t", "e">>)
        \/ includes(jobLocation, <<"a", "n", "y", "w", "h", "e", "r", "e">>)

\* Lines 260-270: the predicate of the filter.
jobPassesLocation(job, loc) ==
    LET jobLocation == toLowerCase(job.location)
    IN  \/ includes(jobLocation, loc)
        \/ includes(jobLocation, <<"r", "e", "m", "o", "t", "e">>)
        \/ includes(jobLocation, <<"a", "n", "y", "w", "h", "e", "r", "e">>)
        \/ includes(jobLocation, <<"w", "o", "r", "l", "d", "w", "i", "d", "e">>)

applyLocationFilter(jobList, place) ==
    IF Len(place) = 0 \/ Len(trim(place)) = 0 THEN jobList
    ELSE LET loc == trim(toLowerCase(place))
         IN  SelectSeq(jobList, LAMBDA job : jobPassesLocation(job, loc))

\* sameJobKey with a defect: the titles and companies are not trimmed.
sameJobKeyNoTrim(j, job) ==
    /\ toLowerCase(j.title) = toLowerCase(job.title)
    /\ toLowerCase(j.company) = toLowerCase(job.company)

\* Lines 303-304
sameJobKey(j, job) ==
    /\ trim(toLowerCase(j.title)) = trim(toLowerCase(job.title))
    /\ trim(toLowerCase(j.company)) = trim(toLowerCase(job.company))

\* self.findIndex(...), 1-based; job itself matches, so an index exists.
findIndexSameKey(jobList, job) ==
    CHOOSE i \in 1..Len(jobList) :
        sameJobKey(jobList[i], job) /\ \A k \in 1..(i - 1) : ~sameJobKey(jobList[k], job)

RECURSIVE keepFirstOccurrences(_, _)
keepFirstOccurrences(jobList, index) ==
    IF index > Len(jobList) THEN << >>
    ELSE (IF index = findIndexSameKey(jobList, jobList[index]) THEN <<jobList[index]>> ELSE << >>)
             \o keepFirstOccurrences(jobList, index + 1)

\* j.title.toLowerCase() raises a TypeError on a title that is no string.
dedupThrows(jobList) == \E i \in 1..Len(jobList) : jobList[i].title = NotAString

\* Lines 301-306
uniqueJobsOf(jobList) == keepFirstOccurrences(jobList, 1)

firstOrEmpty(seq) == IF Len(seq) > 0 THEN seq[1] ELSE << >>

\* primaryKeywordOf with a defect: the first skill is preferred to the first job title.
primaryKeywordSkillFirst(cvFacts) ==
    IF Len(firstOrEmpty(cvFacts.skills)) > 0 THEN cvFacts.skills[1]
    ELSE IF Len(firstOrEmpty(cvFacts.jobTitles)) > 0 THEN cvFacts.jobTitles[1]
    ELSE <<"j", "o", "b", "s">>

\* cvDetails.jobTitles[0] || cvDetails.skills[0] || 'jobs'
primaryKeywordOf(cvFacts) ==
    IF Len(firstOrEmpty(cvFacts.jobTitles)) > 0 THEN cvFacts.jobTitles[1]
    ELSE IF Len(firstOrEmpty(cvFacts.skills)) > 0 THEN cvFacts.skills[1]
    ELSE <<"j", "o", "b", "s">>

\* What the job-search API may answer: a transport failure, a body without
\* data, or up to MaxApiJobs raw records.
MaxApiJobs == 2

ApiTransportError == [kind |-> "error",  data |-> << >>]
ApiNoData         == [kind |-> "nodata", data |-> << >>]
ApiData(records)  == [kind |-> "data",   data |-> records]

ApiOutcomes ==
    {ApiTransportError, ApiNoData}
        \cup { ApiData(d) : d \in SeqsUpTo(ApiJobSamples, MaxApiJobs) }

BulkSize == 27

\* A page of BulkSize postings of BulkSize employers: two titles and three
\* descriptions in turn, every third posting in Paris.
BulkPostings ==
    [ i \in 1..BulkSize |->
        RawJob(IF i % 2 = 0 THEN <<"S", "e", "n", "i", "o", "r", " ", "J", "a", "v", "a", " ", "D", "e", "v">> ELSE <<"N", "u", "r", "s", "e">>,
               [k \in 1..i |-> "x"],
               IF i % 3 = 0 THEN <<"P", "a", "r", "i", "s">> ELSE <<"B", "e", "r", "l", "i", "n">>,
               IF i % 3 = 0 THEN <<"F", "R">> ELSE <<"B", "E">>,
               <<"D", "E">>,
               IF i % 3 = 1 THEN <<"5", "+", " ", "y", "e", "a", "r", "s", " ", "J", "a", "v", "a", " ", "a", "n", "d", " ", "S", "Q", "L">>
               ELSE IF i % 3 = 2 THEN <<"J", "a", "v", "a">> ELSE << >>) ]

\* The primary call may also answer with the page of BulkSize postings, or
\* with a posting whose job_title is a number.
PrimaryOutcomes ==
    ApiOutcomes \cup
    { ApiData(BulkPostings),
      ApiData(<< RawJob(NotAString, <<"A", "c", "m", "e">>, <<"B", "e", "r", "l", "i", "n">>, <<"B", "E">>, <<"D", "E">>, <<"J", "a", "v", "a">>) >>) }

\* searchJobsOutcome with a defect: no catch block around the request of searchJobs.
searchJobsOutcomeNoCatch(outcome, limit) ==
    IF outcome.kind = "data"
    THEN [threw |-> FALSE, jobs |-> mapPrimary(slice(outcome.data, limit))]
    ELSE IF outcome.kind = "nodata" THEN [threw |-> FALSE, jobs |-> << >>]
    ELSE [threw |-> TRUE, jobs |-> << >>]

\* Lines 214-252: what searchJobs returns for an outcome of axios.request.
\* [threw |-> an error leaves searchJobs, jobs |-> the list returned]
searchJobsOutcome(outcome, limit) ==
    IF outcome.kind = "data"
    THEN [threw |-> FALSE, jobs |-> mapPrimary(slice(outcome.data, limit))]
    ELSE [threw |-> FALSE, jobs |-> << >>]

\* Lines 332-363: what fallbackSearch returns.
fallbackSearchResult(outcome, place) ==
    IF outcome.kind = "data"
    THEN LET found == mapFallback(slice(outcome.data, FallbackLimit))
         IN  IF locationGiven(place) THEN applyLocationFilter(found, place)
             ELSE found
    ELSE << >>

----------------------------------------------------------------------------
(* Scoring, sorting and the response (lines 394-431).                      *)

withScore(job, cvFacts) ==
    [ title |-> job.title, company |-> job.company, location |-> job.location,
      description |-> job.description, requiredSkills |-> job.requiredSkills,
      relevanceScore |-> calculateRelevanceScore(job, cvFacts) ]

\* insertSorted with a defect: a job is placed before the jobs of equal score.
RECURSIVE insertSortedBeforeEqual(_, _)
insertSortedBeforeEqual(sorted, job) ==
    IF Len(sorted) = 0 THEN <<job>>
    ELSE IF sorted[Len(sorted)].relevanceScore > job.relevanceScore
         THEN Append(sorted, job)
         ELSE Append(insertSortedBeforeEqual(SubSeq(sorted, 1, Len(sorted) - 1), job),
                     sorted[Len(sorted)])

\* Array.prototype.sort((a, b) => b.relevanceScore - a.relevanceScore): stable.
RECURSIVE insertSorted(_, _)
insertSorted(sorted, job) ==
    IF Len(sorted) = 0 THEN <<job>>
    ELSE IF sorted[Len(sorted)].relevanceScore >= job.relevanceScore
         THEN Append(sorted, job)
         ELSE Append(insertSorted(SubSeq(sorted, 1, Len(sorted) - 1), job),
                     sorted[Len(sorted)])

RECURSIVE sortByScoreUpTo(_, _)
sortByScoreUpTo(jobList, n) ==
    IF n = 0 THEN << >> ELSE insertSorted(sortByScoreUpTo(jobList, n - 1), jobList[n])

sortByScore(jobList) == sortByScoreUpTo(jobList, Len(jobList))

MaxReturnedJobs == 25

processJobs(jobList, cvFacts) ==
    slice(sortByScore([i \in 1..Len(jobList) |-> withScore(jobList[i], cvFacts)]),
          MaxReturnedJobs)

RECURSIVE sumScores(_, _)
sumScores(jobList, n) ==
    IF n = 0 THEN 0 ELSE sumScores(jobList, n - 1) + jobList[n].relevanceScore

\* averageRelevanceScore, in tenths (toFixed(1) of the mean).
averageTenths(jobList) ==
    IF Len(jobList) > 0 THEN MathRound(10 * sumScores(jobList, Len(jobList)), Len(jobList)) ELSE 0

\* error is the text of the body's error field (none in a success response).
NoResponse == [status |-> 0, code |-> "", error |-> << >>, jobs |-> << >>,
               returnedJobs |-> 0, searchLocation |-> << >>, averageTenths |-> 0]

InvalidInputResponse ==
    [NoResponse EXCEPT !.status = 400, !.code = "INVALID_INPUT",
                       !.error = <<"C", "V", " ", "t", "e", "x", "t", " ", "m", "u", "s", "t", " ", "b", "e", " ", "a", "t", " ", "l", "e", "a", "s", "t", " ", "5", "0", " ", "c", "h", "a", "r", "a", "c", "t", "e", "r", "s">>]

ServerErrorResponse ==
    [NoResponse EXCEPT !.status = 500, !.code = "SERVER_ERROR",
                       !.error = <<"F", "a", "i", "l", "e", "d", " ", "t", "o", " ", "p", "r", "o", "c", "e", "s", "s", " ", "y", "o", "u", "r", " ", "r", "e", "q", "u", "e", "s", "t">>]

\* serverErrorResponse with a defect: the message of the error is sent.
serverErrorResponseWithDetail(error) == [ServerErrorResponse EXCEPT !.error = error.text]

\* Lines 438-443: the body does not depend on the error caught.
serverErrorResponse(error) == ServerErrorResponse

\* successResponse with a defect: an empty location is echoed as it is.
successResponseEchoingEmpty(processedJobs, place) ==
    [ status |-> 200, code |-> "", error |-> << >>, jobs |-> processedJobs,
      returnedJobs |-> Len(processedJobs),
      searchLocation |-> place,
      averageTenths |-> averageTenths(processedJobs) ]

\* Lines 401-431
successResponse(processedJobs, place) ==
    [ status |-> 200, code |-> "", error |-> << >>, jobs |-> processedJobs,
      returnedJobs |-> Len(processedJobs),
      searchLocation |-> IF Len(place) > 0 THEN place ELSE <<"A", "l", "l", " ", "l", "o", "c", "a", "t", "i", "o", "n", "s">>,
      averageTenths |-> averageTenths(processedJobs) ]

----------------------------------------------------------------------------
(* POST /search-with-cv                                                    *)

MinCvLength == 50

\* cvText: absent (or any falsy value), a string of `len` characters of which
\* `ws` are leading or trailing whitespace, or a truthy value that is no string.
CvAbsent         == [kind |-> "absent", len |-> 0, ws |-> 0]
CvString(n, w)   == [kind |-> "string", len |-> n, ws |-> w]
CvOther          == [kind |-> "other",  len |-> 0, ws |-> 0]

CvTextSamples ==
    { CvAbsent, CvOther, CvString(0, 0), CvString(49, 0), CvString(51, 2),
      CvString(50, 0) }

LocationSamples == { << >>, <<" ", " ">>, <<"B", "e", "r", "l", "i", "n">> }

NoFacts == [ZeroFacts EXCEPT !.education = FAbsent]

NoUser == [ id |-> 0, is_verified |-> FALSE ]
NoQuestionsResponse == [ status |-> 0, sessionId |-> 0, totalQuestions |-> 0 ]

QuestionsIdle ==
    /\ qPc = "idle" /\ qBody = << >> /\ qUser = NoUser /\ qSessionId = 0
    /\ qQuestions = 0 /\ qResponse = NoQuestionsResponse /\ qServed = 0
    /\ sessions = << >> /\ questionRows = {}

FnIdle ==
    /\ fPhase = "idle" /\ fOp = "none" /\ fArg = << >> /\ fOut = << >>

ScoreIdle ==
    /\ sPhase = "idle" /\ sJob = << >> /\ sCv = << >> /\ sScore = -1 /\ sPrev = -1
    /\ sPools = NoPools

RequestIdle ==
    /\ pc = "idle" /\ cvText = CvAbsent /\ location = << >> /\ apiKey = FALSE
    /\ modelCalled = FALSE /\ extractCase = "none" /\ cvDetails = NoFacts
    /\ jobs = << >> /\ primaryQuery = << >> /\ fallbackQuery = << >>
    /\ primaryKind = "none" /\ primaryReturned = 0 /\ keptJobs = -1
    /\ thrown = NoResult
    /\ steps = << >> /\ response = NoResponse

Init ==
    /\ ScoreIdle
    /\ RetryIdle
    /\ FnIdle
    /\ QuestionsIdle
    /\ pc = "received"
    /\ cvText \in CvTextSamples
    /\ location \in LocationSamples
    /\ apiKey \in BOOLEAN
    /\ modelCalled = FALSE /\ extractCase = "none" /\ cvDetails = NoFacts
    /\ jobs = << >> /\ primaryQuery = << >> /\ fallbackQuery = << >>
    /\ primaryKind = "none" /\ primaryReturned = 0 /\ keptJobs = -1
    /\ thrown = NoResult
    /\ steps = << >> /\ response = NoResponse

\* cvText.trim().length
trimmedLength(text) == text.len - text.ws

\* cvTextRejected with a defect: only an absent or empty cvText is rejected.
cvTextRejectedOnlyEmpty(text) == text.kind = "absent" \/ text.len = 0

\* !cvText || cvText.trim().length < 50
cvTextRejected(text) ==
    text.kind = "absent" \/ text.len = 0 \/ trimmedLength(text) < MinCvLength

\* What the framework's own error handler sends when the promise of a
\* route handler rejects and the framework watches that promise (index.js
\* installs no error handler of its own).
FrameworkErrorResponse == [NoResponse EXCEPT !.status = 500]

\* Lines 367-376.  A truthy cvText without a trim method raises a TypeError
\* before the try block and the handler's promise rejects.  A router that
\* does not watch the promise (Express 4) sends nothing, ever; one that does
\* (Express 5) answers with its default 500.  The repository does not pin
\* the version.
ValidateRequest ==
    /\ pc = "received"
    /\ IF cvText.kind = "other"
       THEN /\ steps' = Append(steps, "validate:throw")
            /\ \/ pc' = "unhandled" /\ UNCHANGED response
               \/ pc' = "done" /\ response' = FrameworkErrorResponse
       ELSE IF cvTextRejected(cvText)
       THEN /\ pc' = "done"
            /\ response' = InvalidInputResponse
            /\ steps' = Append(steps, "respond")
       ELSE /\ pc' = "extract"
            /\ steps' = Append(steps, "validate:ok")
            /\ UNCHANGED response
    /\ UNCHANGED <<cvText, location, apiKey, modelCalled, extractCase, cvDetails,
                   jobs, primaryQuery, fallbackQuery, primaryKind, primaryReturned, keptJobs, thrown>>
    /\ UNCHANGED <<scoreVars, retryVars, fnVars, qVars>>

unchangedDuringExtract ==
    UNCHANGED <<cvText, location, apiKey, cvDetails, jobs, primaryQuery,
                fallbackQuery, primaryKind, primaryReturned, keptJobs, thrown, response, scoreVars, fnVars, qVars>>

\* extractCVDetails up to the call of retryApiCall (lines 34-59).
ExtractStart ==
    /\ pc = "extract"
    /\ RetryEnter(DefaultMaxRetries, DefaultDelay)
    /\ pc' = "extracting"
    /\ steps' = Append(steps, "extract:start")
    /\ UNCHANGED <<modelCalled, extractCase>>
    /\ unchangedDuringExtract

ModelCallStarts ==
    /\ pc = "extracting"
    /\ RetryAttemptStart
    /\ modelCalled' = TRUE
    /\ UNCHANGED <<pc, steps, extractCase>>
    /\ unchangedDuringExtract

ModelCallSucceeds ==
    /\ pc = "extracting"
    /\ \E result \in ModelResultSamples : RetryAttemptSucceed(result)
    /\ UNCHANGED <<pc, steps, modelCalled, extractCase>>
    /\ unchangedDuringExtract

ModelCallFails ==
    /\ pc = "extracting"
    /\ \E error \in ErrorSamples : RetryAttemptFail(error)
    /\ UNCHANGED <<pc, steps, modelCalled, extractCase>>
    /\ unchangedDuringExtract

ModelRetryTimerFires ==
    /\ pc = "extracting"
    /\ RetryWaitElapsed
    /\ UNCHANGED <<pc, steps, modelCalled, extractCase>>
    /\ unchangedDuringExtract

\* retryApiCall has returned or thrown: lines 64-88, then the handler goes on
\* (line 380) or, were an error to leave extractCVDetails, to its catch block.
ExtractFinish ==
    /\ pc = "extracting"
    /\ rPc \in {"returned", "thrown"}
    /\ LET out == extractOutcome(rResult)
       IN  /\ cvDetails' = out.facts
           /\ IF out.threw
              THEN /\ pc' = "caught"
                   /\ steps' = Append(steps, "extract:throw")
              ELSE /\ pc' = "searchAll"
                   /\ steps' = Append(steps, "extract:done")
           /\ thrown' = IF out.threw THEN rResult ELSE thrown
    /\ extractCase' = extractCaseOf(rResult)
    /\ RetryLeave
    /\ UNCHANGED <<cvText, location, apiKey, modelCalled, jobs, primaryQuery,
                   fallbackQuery, primaryKind, primaryReturned, keptJobs, response, scoreVars, fnVars, qVars>>

unchangedDuringSearch ==
    UNCHANGED <<cvText, location, apiKey, modelCalled, extractCase, cvDetails,
                scoreVars, retryVars, fnVars, qVars>>

\* searchAllJobs up to the request of searchJobs (lines 273-293, 189-214).
SearchAllJobsStart ==
    /\ pc = "searchAll"
    /\ IF queryBuildThrows(cvDetails)
       THEN /\ pc' = "caught"
            /\ steps' = Append(steps, "searchAll:throw")
            /\ thrown' = ErrorResult(<<"t", "e", "r", "m", ".", "t", "r", "i", "m", " ", "i", "s", " ", "n", "o", "t", " ", "a", " ", "f", "u", "n", "c", "t", "i", "o", "n">>)
            /\ UNCHANGED <<jobs, primaryQuery, keptJobs>>
       ELSE IF ~apiKey
       THEN /\ pc' = "decide"
            /\ jobs' = << >>
            /\ keptJobs' = 0
            /\ steps' = Append(steps, "searchAll:nokey")
            /\ UNCHANGED <<primaryQuery, thrown>>
       ELSE /\ pc' = "awaitPrimary"
            /\ primaryQuery' = primarySearchQuery(buildSearchQuery(cvDetails), location)
            /\ steps' = steps \o <<"searchAll", "primary:call">>
            /\ UNCHANGED <<jobs, keptJobs, thrown>>
    /\ UNCHANGED <<fallbackQuery, primaryKind, primaryReturned, response>>
    /\ unchangedDuringSearch

\* stepAfterSearchJobs with a defect: the location filter is skipped.
stepAfterSearchJobsNoFilter == "dedup"

\* What searchAllJobs does once searchJobs has returned (line 293): the
\* location filter of lines 296-299, then the deduplication.
stepAfterSearchJobs == "filter"

\* axios.request settles: the rest of searchJobs (lines 214-252).
SearchJobsReturn ==
    /\ pc = "awaitPrimary"
    /\ \E outcome \in PrimaryOutcomes :
        LET out == searchJobsOutcome(outcome, PrimaryLimit)
        IN  /\ primaryKind' = outcome.kind
            /\ primaryReturned' = Len(out.jobs)
            /\ jobs' = out.jobs
            /\ thrown' = IF out.threw THEN ErrorResult(<<"N", "e", "t", "w", "o", "r", "k", " ", "E", "r", "r", "o", "r">>) ELSE thrown
            /\ IF out.threw
               THEN /\ pc' = "caught"
                    /\ steps' = Append(steps, "primary:throw")
               ELSE /\ pc' = stepAfterSearchJobs
                    /\ steps' = Append(steps, "primary:return")
    /\ UNCHANGED <<primaryQuery, fallbackQuery, keptJobs, response>>
    /\ unchangedDuringSearch

\* Lines 296-299
LocationFilterStep ==
    /\ pc = "filter"
    /\ IF locationGiven(location)
       THEN /\ jobs' = applyLocationFilter(jobs, location)
            /\ steps' = Append(steps, "filter")
       ELSE UNCHANGED <<jobs, steps>>
    /\ pc' = "dedup"
    /\ UNCHANGED <<primaryQuery, fallbackQuery, primaryKind, primaryReturned, keptJobs, thrown, response>>
    /\ unchangedDuringSearch

\* Lines 301-309
Deduplicate ==
    /\ pc = "dedup"
    /\ IF dedupThrows(jobs)
       THEN /\ pc' = "caught"
            /\ thrown' = ErrorResult(<<"j", ".", "t", "i", "t", "l", "e", ".", "t", "o", "L", "o", "w", "e", "r", "C", "a", "s", "e", " ", "i", "s", " ", "n", "o", "t", " ", "a", " ", "f", "u", "n", "c", "t", "i", "o", "n">>)
            /\ steps' = Append(steps, "dedup:throw")
            /\ UNCHANGED <<jobs, keptJobs>>
       ELSE /\ jobs' = uniqueJobsOf(jobs)
            /\ keptJobs' = Len(jobs')
            /\ steps' = Append(steps, "dedup")
            /\ pc' = "decide"
            /\ UNCHANGED thrown
    /\ UNCHANGED <<primaryQuery, fallbackQuery, primaryKind, primaryReturned, response>>
    /\ unchangedDuringSearch

\* fallbackNeeded with a defect: the fallback also runs when one posting is left.
fallbackNeededAtMostOne(jobList) == Len(jobList) <= 1

\* if (jobs.length === 0)
fallbackNeeded(jobList) == Len(jobList) = 0

\* Lines 389-390 and fallbackSearch up to its request (lines 312-332).
FallbackDecision ==
    /\ pc = "decide"
    /\ IF fallbackNeeded(jobs)
       THEN /\ pc' = "awaitFallback"
            /\ fallbackQuery' = primaryKeywordOf(cvDetails)
            /\ steps' = steps \o <<"decide", "fallback:call">>
       ELSE /\ pc' = "score"
            /\ steps' = Append(steps, "decide")
            /\ UNCHANGED fallbackQuery
    /\ UNCHANGED <<jobs, primaryQuery, primaryKind, primaryReturned, keptJobs, thrown, response>>
    /\ unchangedDuringSearch

\* The fallback request settles (lines 332-363, 391).
FallbackReturn ==
    /\ pc = "awaitFallback"
    /\ \E outcome \in ApiOutcomes :
        /\ jobs' = fallbackSearchResult(outcome, location)
        /\ steps' = steps \o
               (IF outcome.kind = "data" /\ locationGiven(location)
                THEN <<"fallback:filter", "fallback:return">>
                ELSE <<"fallback:return">>)
    /\ pc' = "score"
    /\ UNCHANGED <<primaryQuery, fallbackQuery, primaryKind, primaryReturned, keptJobs, thrown, response>>
    /\ unchangedDuringSearch

\* Lines 394-434
ScoreAndRespond ==
    /\ pc = "score"
    /\ response' = successResponse(processJobs(jobs, cvDetails), location)
    /\ steps' = steps \o <<"score", "respond">>
    /\ pc' = "done"
    /\ UNCHANGED <<jobs, primaryQuery, fallbackQuery, primaryKind, primaryReturned, keptJobs, thrown>>
    /\ unchangedDuringSearch

\* The catch block of the handler (lines 436-444).
RespondServerError ==
    /\ pc = "caught"
    /\ response' = serverErrorResponse(thrown)
    /\ steps' = Append(steps, "respond")
    /\ pc' = "done"
    /\ UNCHANGED <<jobs, primaryQuery, fallbackQuery, primaryKind, primaryReturned, keptJobs, thrown>>
    /\ unchangedDuringSearch

Next ==
    \/ ValidateRequest
    \/ ExtractStart
    \/ ModelCallStarts
    \/ ModelCallSucceeds
    \/ ModelCallFails
    \/ ModelRetryTimerFires
    \/ ExtractFinish
    \/ SearchAllJobsStart
    \/ SearchJobsReturn
    \/ LocationFilterStep
    \/ Deduplicate
    \/ FallbackDecision
    \/ FallbackReturn
    \/ ScoreAndRespond
    \/ RespondServerError

Spec == Init /\ [][Next]_vars

\* The positions at which the handler still has code to run or a call to
\* wait for.  At "done" it has returned; at "unhandled" its promise has
\* rejected and nothing of it is left to run.
RunningPositions ==
    { "received", "extract", "extracting", "searchAll", "awaitPrimary", "filter",
      "dedup", "decide", "awaitFallback", "score", "caught" }

\* The handler is ready to leave its position: inside extractCVDetails only
\* once retryApiCall has returned or thrown.
HandlerReady ==
    /\ pc \in RunningPositions
    /\ pc = "extracting" => rPc \in {"returned", "thrown"}

\* A step of the handler to another position.  Every such step of Spec is a
\* step of Next, and in every reachable state with HandlerReady Next has one.
Advance == HandlerReady /\ pc' \in RunningPositions \cup {"done", "unhandled"}

\* SpecLive: every external call eventually returns or fails, every timer
\* fires, and the event loop runs every continuation that is ready.
SpecLive ==
    /\ Spec
    /\ WF_pc(Advance)
    /\ WF_vars(ModelCallStarts)
    /\ WF_vars(ModelCallSucceeds \/ ModelCallFails)
    /\ WF_vars(ModelRetryTimerFires)

----------------------------------------------------------------------------
(* SpecScore: calculateRelevanceScore applied to every sampled posting and *)
(* CV facts record, then to the same record with one more matching skill.  *)

ScoreInit ==
    /\ RetryIdle
    /\ RequestIdle
    /\ FnIdle
    /\ QuestionsIdle
    /\ sPhase = "input"
    /\ sJob \in { normalizePrimary(r) : r \in RawJobSamples }
    /\ sCv \in CVFactsSamples
    /\ sScore = -1
    /\ sPrev = -1
    /\ sPools = NoPools

Score ==
    /\ sPhase = "input"
    /\ sScore' = calculateRelevanceScore(sJob, sCv)
    /\ sPools' = scorePools(sJob, sCv)
    /\ sPhase' = "scored"
    /\ UNCHANGED <<sJob, sCv, sPrev>>
    /\ UNCHANGED <<retryVars, reqVars, fnVars, qVars>>

\* One more skill that substring-matches a required skill is appended to
\* cvFacts.skills and the same job is scored again.
AddMatchingSkill ==
    /\ sPhase = "scored"
    /\ \E skill \in SkillSamples :
        /\ skillMatches(skill, sJob.requiredSkills)
        /\ sCv' = [sCv EXCEPT !.skills = Append(@, skill)]
        /\ sScore' = calculateRelevanceScore(sJob, sCv')
        /\ sPools' = scorePools(sJob, sCv')
    /\ sPrev' = sScore
    /\ sPhase' = "rescored"
    /\ UNCHANGED sJob
    /\ UNCHANGED <<retryVars, reqVars, fnVars, qVars>>

ScoreNext == Score \/ AddMatchingSkill

SpecScore == ScoreInit /\ [][ScoreNext]_vars

----------------------------------------------------------------------------
(* SpecRetry: retryApiCall on its own, for every maximum attempt count up  *)
(* to MaxRetriesBound, sampled base delays and every outcome of each call. *)

MaxRetriesBound == 3
DelaySamples == { DefaultDelay, 250 }
ResultSamples == { TextResult(<<"{", "}">>), BlockedResult }

RetryInit ==
    /\ ScoreIdle
    /\ RequestIdle
    /\ FnIdle
    /\ QuestionsIdle
    /\ rPc = "call" /\ rI = 0 /\ rInFlight = 0 /\ rTimer = 0
    /\ rMax \in 0..MaxRetriesBound
    /\ rDelay \in DelaySamples
    /\ rLog = << >> /\ rOutcomes = << >> /\ rResult = NoResult

RetryCallSucceeds ==
    /\ \E result \in ResultSamples : RetryAttemptSucceed(result)
    /\ UNCHANGED <<scoreVars, reqVars, fnVars, qVars>>

RetryCallFails ==
    /\ \E error \in ErrorSamples : RetryAttemptFail(error)
    /\ UNCHANGED <<scoreVars, reqVars, fnVars, qVars>>

RetryCallStarts == RetryAttemptStart /\ UNCHANGED <<scoreVars, reqVars, fnVars, qVars>>

RetryLoopEnds == RetryLoopExit /\ UNCHANGED <<scoreVars, reqVars, fnVars, qVars>>

RetryTimerFires == RetryWaitElapsed /\ UNCHANGED <<scoreVars, reqVars, fnVars, qVars>>

RetryNext ==
    \/ RetryCallStarts
    \/ RetryLoopEnds
    \/ RetryCallSucceeds
    \/ RetryCallFails
    \/ RetryTimerFires

SpecRetry == RetryInit /\ [][RetryNext]_vars

----------------------------------------------------------------------------
(* formatDate (lines 91-106) and the fields of a posting that the scorer   *)
(* does not read (lines 230-243, 340-349).  Times are counted in minutes   *)
(* after 2024-01-01T00:00Z.                                                *)

\* 1000 * 60 * 60 * 24 milliseconds, in minutes.
MinutesPerDay == 1440

\* A Date: its time value, or an Invalid Date, whose time value is NaN.
DateAt(time) == [ valid |-> TRUE, time |-> time ]
InvalidDate  == [ valid |-> FALSE, time |-> 0 ]

\* The timestamp texts that new Date(dateString) can read, with their time.
DateTable ==
    { [ text |-> <<"2", "0", "2", "4", "-", "0", "1", "-", "0", "1", "T", "0", "0", ":", "0", "0", ":", "0", "0", ".", "0", "0", "0", "Z">>, time |-> 0 ],
      [ text |-> <<"2", "0", "2", "4", "-", "0", "1", "-", "1", "0", "T", "0", "6", ":", "3", "0", ":", "0", "0", "Z">>, time |-> 13350 ] }

\* Texts that new Date(dateString) turns into an Invalid Date.
InvalidDateTexts == { <<"s", "o", "o", "n">>, <<"2", "0", "2", "4", "-", "1", "3", "-", "4", "5", "T", "0", "0", ":", "0", "0", ":", "0", "0", "Z">>, <<"N", "/", "A">> }

\* new Date(dateString): it does not throw on a string.
dateParse(dateString) ==
    IF \E d \in DateTable : d.text = dateString
    THEN DateAt((CHOOSE d \in DateTable : d.text = dateString).time)
    ELSE InvalidDate

Abs(n) == IF n < 0 THEN -n ELSE n

RECURSIVE numberToString(_)
numberToString(n) ==
    IF n < 10 THEN <<DigitChars[n + 1]>>
    ELSE Append(numberToString(n \div 10), DigitChars[(n % 10) + 1])

\* daysBetween with a defect: the days are rounded down.
daysBetweenRoundedDown(diffTime) == diffTime \div MinutesPerDay

\* Math.ceil(diffTime / (1000 * 60 * 60 * 24))
daysBetween(diffTime) == (diffTime + MinutesPerDay - 1) \div MinutesPerDay

\* Lines 98-102 for a number of days.
relativeTime(diffDays) ==
    IF diffDays = 1 THEN <<"1", " ", "d", "a", "y", " ", "a", "g", "o">>
    ELSE IF diffDays < 7 THEN numberToString(diffDays) \o <<" ", "d", "a", "y", "s", " ", "a", "g", "o">>
    ELSE IF diffDays < 14 THEN <<"1", " ", "w", "e", "e", "k", " ", "a", "g", "o">>
    ELSE IF diffDays < 30 THEN numberToString(diffDays \div 7) \o <<" ", "w", "e", "e", "k", "s", " ", "a", "g", "o">>
    ELSE numberToString(diffDays \div 30) \o <<" ", "m", "o", "n", "t", "h", "s", " ", "a", "g", "o">>

\* formatDate(dateString) called at the time now.  Nothing in the try block
\* throws, so the catch block that returns 'Recently' is never entered: with
\* an Invalid Date diffDays is NaN, each comparison of lines 98-101 is false
\* and line 102 formats Math.floor(NaN / 30).
formatDate(dateString, now) ==
    LET date == dateParse(dateString)
    IN  IF ~date.valid
        THEN <<"N", "a", "N", " ", "m", "o", "n", "t", "h", "s", " ", "a", "g", "o">>
        ELSE relativeTime(daysBetween(Abs(now - date.time)))

\* The fields of a raw record that only the response shows.  A salary of 0
\* stands for a missing one; an empty job_id for a missing one.
RawDetail(type, postedAt, currency, minSalary, maxSalary, link, id) ==
    [ job_employment_type |-> type, job_posted_at_datetime_utc |-> postedAt,
      job_salary_currency |-> currency, job_min_salary |-> minSalary,
      job_max_salary |-> maxSalary, job_apply_link |-> link, job_id |-> id ]

\* Date.now().toString() + Math.random()
GeneratedId == <<"#generated">>

\* Lines 238-240
formatSalary(raw) ==
    IF Len(raw.job_salary_currency) > 0 /\ raw.job_min_salary # 0
    THEN raw.job_salary_currency \o <<" ">> \o numberToString(raw.job_min_salary) \o
         (IF raw.job_max_salary # 0
          THEN <<" ", "-", " ">> \o numberToString(raw.job_max_salary) ELSE << >>)
    ELSE <<"N", "o", "t", " ", "s", "p", "e", "c", "i", "f", "i", "e", "d">>

\* Lines 230-243 of searchJobs, less the fields of normalizePrimary.
primaryDetails(raw, now) ==
    [ type     |-> IF Len(raw.job_employment_type) > 0 THEN raw.job_employment_type
                   ELSE <<"F", "u", "l", "l", "-", "t", "i", "m", "e">>,
      platform |-> <<"J", "o", "b", " ", "S", "e", "a", "r", "c", "h">>,
      posted   |-> IF Len(raw.job_posted_at_datetime_utc) > 0
                   THEN formatDate(raw.job_posted_at_datetime_utc, now)
                   ELSE <<"R", "e", "c", "e", "n", "t", "l", "y">>,
      salary   |-> formatSalary(raw),
      url      |-> IF Len(raw.job_apply_link) > 0 THEN raw.job_apply_link ELSE <<"#">>,
      jobId    |-> IF Len(raw.job_id) > 0 THEN raw.job_id ELSE GeneratedId ]

\* Lines 340-349 of fallbackSearch, less the fields of normalizeFallback.
fallbackDetails(raw) ==
    [ type     |-> IF Len(raw.job_employment_type) > 0 THEN raw.job_employment_type
                   ELSE <<"F", "u", "l", "l", "-", "t", "i", "m", "e">>,
      platform |-> <<"J", "o", "b", " ", "S", "e", "a", "r", "c", "h">>,
      posted   |-> <<"R", "e", "c", "e", "n", "t", "l", "y">>,
      salary   |-> <<"N", "o", "t", " ", "s", "p", "e", "c", "i", "f", "i", "e", "d">>,
      url      |-> IF Len(raw.job_apply_link) > 0 THEN raw.job_apply_link ELSE <<"#">>,
      jobId    |-> IF Len(raw.job_id) > 0 THEN raw.job_id ELSE GeneratedId ]

----------------------------------------------------------------------------
(* SpecFn: cleanJsonResponse, applyLocationFilter, formatDate and the two  *)
(* normalizations of a raw record, each called once on sampled arguments.  *)

\* Raw model texts: leading prose, a fenced JSON object, trailing prose.
ProseBefore == { << >>, <<"H", "e", "r", "e", " ", "i", "t", " ", "i", "s", ":", "\n">>, <<"F", "a", "c", "t", "s", " ", "{", "a", "s", " ", "a", "s", "k", "e", "d", "}", ":", " ">> }
ProseAfter  == { << >>, <<"\n", "D", "o", "n", "e", ".">>, <<" ", "(", "s", "e", "e", " ", "{", "s", "k", "i", "l", "l", "s", "}", ")">> }
ObjectTexts == { <<"{", "}">>, <<"{", "\"", "s", "k", "i", "l", "l", "s", "\"", ":", "[", "\"", "j", "a", "v", "a", "\"", "]", "}">>, <<"{", "\"", "a", "\"", ":", "{", "\"", "b", "\"", ":", "2", "}", "}">> }
FenceOpens  == { <<"backtick", "backtick", "backtick", "j", "s", "o", "n", "\n">>, <<"backtick", "backtick", "backtick", "j", "s", "o", "n">> }

FencedArgs ==
    { [ kind |-> "fenced", pre |-> pre, json |-> json, post |-> post,
        text |-> pre \o open \o json \o <<"\n", "backtick", "backtick", "backtick">> \o post ] :
        pre \in ProseBefore, json \in ObjectTexts, post \in ProseAfter,
        open \in FenceOpens }

\* Raw model texts without a pair of braces.
PlainArgs ==
    { [ kind |-> "plain", pre |-> << >>, json |-> << >>, post |-> << >>, text |-> t ] :
        t \in { << >>, <<" ", " ", "S", "o", "r", "r", "y", ",", " ", "I", " ", "c", "a", "n", "n", "o", "t", " ", "d", "o", " ", "t", "h", "a", "t", ".", " ">>, <<"backtick", "backtick", "backtick", "j", "s", "o", "n", "\n", "n", "u", "l", "l", "\n", "backtick", "backtick", "backtick">>,
                <<" ", "[", "1", ",", " ", "2", "]", "\n">>, <<"{", " ", "\"", "s", "k", "i", "l", "l", "s", "\"", ":", " ">> } }

MaxFilterJobs == 2

\* Postings as applyLocationFilter sees them: only location is read.
FilterJobSamples ==
    { [ title |-> <<"a">>, location |-> <<"B", "e", "r", "l", "i", "n", ",", " ", "B", "E">> ],
      [ title |-> <<"b">>, location |-> <<"P", "a", "r", "i", "s", ",", " ", "F", "R">> ],
      [ title |-> <<"c">>, location |-> <<"R", "e", "m", "o", "t", "e">> ],
      [ title |-> <<"d">>, location |-> <<"A", "n", "y", "w", "h", "e", "r", "e", " ", "i", "n", " ", "E", "U">> ],
      [ title |-> <<"e">>, location |-> <<"W", "O", "R", "L", "D", "W", "I", "D", "E">> ],
      [ title |-> <<"f">>, location |-> << >> ],
      [ title |-> <<"g">>, location |-> <<"E", "a", "s", "t", " ", "b", "e", "r", "l", "i", "n">> ] }

FilterLocationSamples == { << >>, <<" ", " ">>, <<"B", "e", "r", "l", "i", "n">>, <<" ", "p", "a", "r", "i", "s", " ">> }

\* Minutes between the timestamp and the call of formatDate: none, parts
\* of a day, whole days, and a timestamp that lies ahead of the clock.
ElapsedSamples ==
    { 0, 1, 720, 1440, 1441, 2160, 2880, 8640, 8641, 10080, 18720, 19320,
      20160, 20165, 28805, 41760, 41761, 43200, 57600, 84961, 525600, -100, -1440 }

FormatDateArgs ==
    { [ dateString |-> d.text, now |-> d.time + e ] :
        d \in DateTable, e \in ElapsedSamples }
    \cup { [ dateString |-> t, now |-> 13350 ] : t \in InvalidDateTexts }

DetailSamples ==
    { RawDetail(<< >>, << >>, << >>, 0, 0, << >>, << >>),
      RawDetail(<<"C", "o", "n", "t", "r", "a", "c", "t">>, <<"2", "0", "2", "4", "-", "0", "1", "-", "0", "1", "T", "0", "0", ":", "0", "0", ":", "0", "0", ".", "0", "0", "0", "Z">>, <<"U", "S", "D">>, 50000, 0,
                <<"h", "t", "t", "p", "s", ":", "/", "/", "j", "o", "b", "s", ".", "e", "x", "a", "m", "p", "l", "e", "/", "1">>, <<"j", "1">>),
      RawDetail(<< >>, <<"s", "o", "o", "n">>, <<"E", "U", "R">>, 40000, 60000, << >>, <<"j", "2">>) }

FnInit ==
    /\ QuestionsIdle
    /\ ScoreIdle
    /\ RetryIdle
    /\ RequestIdle
    /\ fPhase = "input"
    /\ fOut = << >>
    /\ \/ fOp = "clean" /\ fArg \in FencedArgs \cup PlainArgs
       \/ /\ fOp = "filter"
          /\ fArg \in { [ jobs |-> j, location |-> l ] :
                          j \in SeqsUpTo(FilterJobSamples, MaxFilterJobs),
                          l \in FilterLocationSamples }
       \/ fOp = "formatDate" /\ fArg \in FormatDateArgs
       \/ /\ fOp = "normalize"
          /\ fArg \in { [ raw |-> r, detail |-> d, now |-> 13350 ] :
                          r \in RawJobSamples, d \in DetailSamples }

CallCleanJsonResponse ==
    /\ fPhase = "input" /\ fOp = "clean"
    /\ fOut' = cleanJsonResponse(fArg.text)
    /\ fPhase' = "done"
    /\ UNCHANGED <<fOp, fArg, scoreVars, retryVars, reqVars, qVars>>

CallApplyLocationFilter ==
    /\ fPhase = "input" /\ fOp = "filter"
    /\ fOut' = applyLocationFilter(fArg.jobs, fArg.location)
    /\ fPhase' = "done"
    /\ UNCHANGED <<fOp, fArg, scoreVars, retryVars, reqVars, qVars>>

CallFormatDate ==
    /\ fPhase = "input" /\ fOp = "formatDate"
    /\ fOut' = formatDate(fArg.dateString, fArg.now)
    /\ fPhase' = "done"
    /\ UNCHANGED <<fOp, fArg, scoreVars, retryVars, reqVars, qVars>>

\* One raw record normalized by searchJobs and by fallbackSearch.
CallNormalize ==
    /\ fPhase = "input" /\ fOp = "normalize"
    /\ fOut' = [ primary  |-> normalizePrimary(fArg.raw),
                 fallback |-> normalizeFallback(fArg.raw),
                 primaryDetails  |-> primaryDetails(fArg.detail, fArg.now),
                 fallbackDetails |-> fallbackDetails(fArg.detail) ]
    /\ fPhase' = "done"
    /\ UNCHANGED <<fOp, fArg, scoreVars, retryVars, reqVars, qVars>>

FnNext ==
    \/ CallCleanJsonResponse
    \/ CallApplyLocationFilter
    \/ CallFormatDate
    \/ CallNormalize

SpecFn == FnInit /\ [][FnNext]_vars

----------------------------------------------------------------------------
(* POST /generate-questions (routes of the interview sessions, lines       *)
(* 20-95), with the two tables it writes.  SpecQuestions serves up to      *)
(* MaxRequests requests one after the other.                               *)

MaxRequests == 2

\* Table users as getUserByEmail reads it.
UserRows ==
    { [ email |-> <<"a", "n", "n", "@", "e", "x", "a", "m", "p", "l", "e", ".", "o", "r", "g">>, id |-> 1, is_verified |-> TRUE ],
      [ email |-> <<"b", "o", "b", "@", "e", "x", "a", "m", "p", "l", "e", ".", "o", "r", "g">>, id |-> 2, is_verified |-> FALSE ] }

BodySamples ==
    { [ email |-> e, cv |-> c, jobDescription |-> j ] :
        e \in { << >>, <<"a", "n", "n", "@", "e", "x", "a", "m", "p", "l", "e", ".", "o", "r", "g">>, <<"b", "o", "b", "@", "e", "x", "a", "m", "p", "l", "e", ".", "o", "r", "g">>, <<"e", "v", "e", "@", "e", "x", "a", "m", "p", "l", "e", ".", "o", "r", "g">> },
        c \in { << >>, <<"T", "e", "n", " ", "y", "e", "a", "r", "s", " ", "o", "f", " ", "J", "a", "v", "a">> },
        j \in { << >>, <<"J", "a", "v", "a", " ", "d", "e", "v", "e", "l", "o", "p", "e", "r">> } }

\* results[0] || null
getUserByEmail(email) ==
    IF \E u \in UserRows : u.email = email
    THEN LET u == CHOOSE u \in UserRows : u.email = email
         IN  [ id |-> u.id, is_verified |-> u.is_verified ]
    ELSE NoUser

\* createGenericFallbackQuestions returns 10 questions.
GenericFallbackCount == 10

MaxParsedQuestions == 2

\* What the model call resolves with: a text that holds a JSON array of
\* count questions, a text without a JSON array, or no text at all.
AnswerSamples ==
    { [ kind |-> "array", count |-> n ] : n \in 0..MaxParsedQuestions }
    \cup { [ kind |-> "prose", count |-> 0 ], [ kind |-> "noText", count |-> 0 ] }

\* parseQuestionsFromAI: the number of questions it returns.  An empty
\* array, a text without an array and a missing text (a TypeError inside
\* the try block) all end in the catch block and its generic questions.
parseQuestionsFromAI(answer) ==
    IF answer.kind = "array" /\ answer.count > 0 THEN answer.count
    ELSE GenericFallbackCount

\* The rows one INSERT of saveQuestionsToDatabase adds.
questionRowsOf(sessionId, count) ==
    { [ session_id |-> sessionId, order_index |-> i ] : i \in 1..count }

questionsOfSession(sessionId) == { q \in questionRows : q.session_id = sessionId }

QuestionsInit ==
    /\ ScoreIdle
    /\ RetryIdle
    /\ RequestIdle
    /\ FnIdle
    /\ qPc = "received"
    /\ qBody \in BodySamples
    /\ qUser = NoUser /\ qSessionId = 0 /\ qQuestions = 0
    /\ qResponse = NoQuestionsResponse /\ qServed = 0
    /\ sessions = << >> /\ questionRows = {}

unchangedByQuestions == UNCHANGED <<scoreVars, retryVars, reqVars, fnVars>>

\* Lines 22-28
QValidate ==
    /\ qPc = "received"
    /\ IF qBody.email = << >> \/ qBody.cv = << >>
       THEN /\ qPc' = "done"
            /\ qResponse' = [NoQuestionsResponse EXCEPT !.status = 400]
       ELSE /\ qPc' = "lookup"
            /\ UNCHANGED qResponse
    /\ UNCHANGED <<qBody, qUser, qSessionId, qQuestions, qServed, sessions, questionRows>>
    /\ unchangedByQuestions

\* Where the handler is after a query of getUserByEmail or
\* createInterviewSession failed: the callback rejects the promise and then
\* reads a property of the undefined result (lines 14-15, 166-167), which
\* raises a TypeError inside the driver's callback.  Either the rejection
\* reaches the catch block or the uncaught TypeError ends the process first.
AfterFailedQuery == { "caught", "crashed" }

\* Lines 30-45
QLookupUser ==
    /\ qPc = "lookup"
    /\ \/ /\ qPc' \in AfterFailedQuery
          /\ UNCHANGED <<qUser, qResponse>>
       \/ LET user == getUserByEmail(qBody.email)
          IN  IF user = NoUser
              THEN /\ qPc' = "done"
                   /\ qResponse' = [NoQuestionsResponse EXCEPT !.status = 404]
                   /\ UNCHANGED qUser
              ELSE IF ~user.is_verified
              THEN /\ qPc' = "done"
                   /\ qResponse' = [NoQuestionsResponse EXCEPT !.status = 403]
                   /\ UNCHANGED qUser
              ELSE /\ qPc' = "createSession"
                   /\ qUser' = user
                   /\ UNCHANGED qResponse
    /\ UNCHANGED <<qBody, qSessionId, qQuestions, qServed, sessions, questionRows>>
    /\ unchangedByQuestions

\* Lines 47-56 and createInterviewSession (lines 160-171): the INSERT adds
\* one row, whose id is the next of the table, or fails.
QCreateSession ==
    /\ qPc = "createSession"
    /\ \/ /\ qPc' \in AfterFailedQuery
          /\ UNCHANGED <<qSessionId, sessions>>
       \/ /\ sessions' = Append(sessions,
                  [ id |-> Len(sessions) + 1, user_id |-> qUser.id,
                    session_type |-> IF qBody.jobDescription # << >>
                                     THEN "cv_with_job" ELSE "cv_only" ])
          /\ qSessionId' = Len(sessions) + 1
          /\ qPc' = "generating"
    /\ UNCHANGED <<qBody, qUser, qQuestions, qResponse, qServed, questionRows>>
    /\ unchangedByQuestions

\* ai.models.generateContent resolves (lines 60-68).
QModelReturns ==
    /\ qPc = "generating"
    /\ \E answer \in AnswerSamples : qQuestions' = parseQuestionsFromAI(answer)
    /\ qPc' = "saving"
    /\ UNCHANGED <<qBody, qUser, qSessionId, qResponse, qServed, sessions, questionRows>>
    /\ unchangedByQuestions

\* ai.models.generateContent rejects (line 60): the handler goes to its
\* catch block.
QModelFails ==
    /\ qPc = "generating"
    /\ qPc' = "caught"
    /\ UNCHANGED <<qBody, qUser, qSessionId, qQuestions, qResponse, qServed, sessions,
                   questionRows>>
    /\ unchangedByQuestions

\* saveQuestionsToDatabase (lines 69, 377-400): one INSERT for all the
\* questions, which adds all its rows or, when it fails, none.
QSaveQuestions ==
    /\ qPc = "saving"
    /\ \/ /\ questionRows' = questionRows \cup questionRowsOf(qSessionId, qQuestions)
          /\ qPc' = "reading"
       \/ /\ qPc' = "caught"
          /\ UNCHANGED questionRows
    /\ UNCHANGED <<qBody, qUser, qSessionId, qQuestions, qResponse, qServed, sessions>>
    /\ unchangedByQuestions

\* getQuestionsBySessionId and the success response (lines 71-87).
QReadQuestions ==
    /\ qPc = "reading"
    /\ \/ /\ qResponse' = [ status |-> 200, sessionId |-> qSessionId,
                            totalQuestions |-> Cardinality(questionsOfSession(qSessionId)) ]
          /\ qPc' = "done"
       \/ /\ qPc' = "caught"
          /\ UNCHANGED qResponse
    /\ UNCHANGED <<qBody, qUser, qSessionId, qQuestions, qServed, sessions, questionRows>>
    /\ unchangedByQuestions

\* The catch block (lines 89-94).
QRespondError ==
    /\ qPc = "caught"
    /\ qResponse' = [NoQuestionsResponse EXCEPT !.status = 500]
    /\ qPc' = "done"
    /\ UNCHANGED <<qBody, qUser, qSessionId, qQuestions, qServed, sessions, questionRows>>
    /\ unchangedByQuestions

\* The next request arrives; the tables keep their rows.
QNextRequest ==
    /\ qPc = "done"
    /\ qServed + 1 < MaxRequests
    /\ qServed' = qServed + 1
    /\ qBody' \in BodySamples
    /\ qPc' = "received"
    /\ qUser' = NoUser /\ qSessionId' = 0 /\ qQuestions' = 0
    /\ qResponse' = NoQuestionsResponse
    /\ UNCHANGED <<sessions, questionRows>>
    /\ unchangedByQuestions

QuestionsNext ==
    \/ QValidate
    \/ QLookupUser
    \/ QCreateSession
    \/ QModelReturns
    \/ QModelFails
    \/ QSaveQuestions
    \/ QReadQuestions
    \/ QRespondError
    \/ QNextRequest

SpecQuestions == QuestionsInit /\ [][QuestionsNext]_vars

----------------------------------------------------------------------------
(* Properties.                                                             *)

Has(step) == \E i \in 1..Len(steps) : steps[i] = step

Count(step) == Cardinality({i \in 1..Len(steps) : steps[i] = step})

\* Every occurrence of step a comes before every occurrence of step b.
Precedes(a, b) ==
    \A i, j \in 1..Len(steps) : steps[i] = a /\ steps[j] = b => i < j

\* C1: for every job posting and CVFacts record, calculateRelevanceScore
\* returns an integer r with 0 <= r <= 100.
C1_ScoreWithinBounds ==
    sPhase \in {"scored", "rescored"} => sScore \in 0..100

C3_ExtractorAbsorbsFailures ==
    extractCase \in {"failed", "invalidJson", "nonObject"} =>
        /\ cvDetails = [ skills |-> << >>, experienceYears |-> 0,
                         jobTitles |-> << >>, industries |-> << >>,
                         education |-> FStr(<<"N", "o", "t", " ", "s", "p", "e", "c", "i", "f", "i", "e", "d">>),
                         searchKeywords |-> << >> ]
        /\ Has("extract:done")
        /\ ~Has("extract:throw")
        /\ (pc = "caught" => Has("dedup:throw"))
        /\ (pc = "searchAll" \/ Has("searchAll") \/ Has("searchAll:nokey"))

\* All three model calls failed and the primary job search was still issued.
C3_Witness ==
    extractCase = "failed" /\ Has("primary:call")

AttemptsStarted == Cardinality({k \in 1..Len(rLog) : rLog[k][1] = "start"})

AllFailed(n) ==
    Len(rOutcomes) = n /\ \A k \in 1..n : rOutcomes[k].kind = "error"

\* C4: retryApiCall with maximum attempt count n >= 1 invokes the operation
\* at most n times; it returns the result of the first successful attempt
\* and makes no attempt after a success; if all n attempts fail it throws
\* the failure of the n-th attempt.
C4_RetryBoundedAndPropagatesLast ==
    rMax >= 1 =>
        /\ AttemptsStarted <= rMax
        /\ \A k \in 1..Len(rLog) : rLog[k][1] = "ok" => k = Len(rLog)
        /\ rPc = "returned" =>
               /\ Len(rOutcomes) >= 1
               /\ rOutcomes[Len(rOutcomes)].kind # "error"
               /\ rResult = rOutcomes[Len(rOutcomes)]
               /\ \A k \in 1..(Len(rOutcomes) - 1) : rOutcomes[k].kind = "error"
        /\ rPc = "thrown" => AllFailed(rMax) /\ rResult = rOutcomes[rMax]
        /\ AllFailed(rMax) => rPc = "thrown"

\* Three attempts failed with different errors and the last one was thrown.
C4_Witness ==
    /\ rPc = "thrown" /\ rMax = 3 /\ AttemptsStarted = 3
    /\ rOutcomes[1] # rOutcomes[3]

\* C5: retries are sequential with increasing delay: attempt k+1 starts only
\* after attempt k has failed and a wait of baseDelay * 2^k has elapsed, at
\* most one attempt is in flight, and no wait follows the final failed
\* attempt.
C5_RetriesSequentialWithBackoff ==
    /\ rInFlight <= 1
    /\ \A k \in 1..Len(rLog) :
        /\ (rLog[k][1] = "start" /\ rLog[k][2] >= 1) =>
               /\ k >= 3
               /\ rLog[k - 1] = <<"wait", rDelay * 2 ^ (rLog[k][2] - 1)>>
               /\ rLog[k - 2] = <<"fail", rLog[k][2] - 1>>
        /\ (rLog[k][1] = "start" /\ rLog[k][2] = 0) => k = 1
        /\ rLog[k][1] = "wait" =>
               k >= 2 /\ rLog[k - 1][1] = "fail" /\ rLog[k - 1][2] < rMax - 1
    /\ rPc = "thrown" =>
           /\ rTimer = 0
           /\ rLog[Len(rLog)] = <<"fail", rMax - 1>>
    /\ rPc = "waiting" => rI < rMax - 1 /\ rTimer = rDelay * 2 ^ rI

\* The third attempt has started, after waits of 250 ms and 500 ms.
C5_Witness ==
    /\ rDelay = 250
    /\ \E k \in 1..Len(rLog) : rLog[k] = <<"start", 2>>
    /\ \E k \in 1..Len(rLog) : rLog[k] = <<"wait", 500>>

\* C6: a request whose cvText is absent or has fewer than 50 characters is
\* answered with HTTP 400 and code INVALID_INPUT, and no generative-model
\* call and no job-search call is made for it.
C6_InvalidInputRejected ==
    (cvText.kind = "absent" \/ (cvText.kind = "string" /\ cvText.len < 50)) =>
        /\ pc \in {"received", "done"}
        /\ ~modelCalled
        /\ ~Has("primary:call") /\ ~Has("fallback:call")
        /\ pc = "done" => response.status = 400 /\ response.code = "INVALID_INPUT"

\* A 49-character cvText has been answered with 400.
C6_Witness ==
    /\ cvText.kind = "string" /\ cvText.len = 49
    /\ pc = "done" /\ response.status = 400

\* C7, as stated: if the primary job-search call returned at least one
\* posting, no fallback call is made.
C7_NoFallbackWhenPrimaryReturnedPostings ==
    primaryReturned >= 1 => ~Has("fallback:call")

\* C7, amended: the fallback search is invoked only when the job set left
\* after the primary search, the location filter and deduplication is
\* empty; if at least one posting is left, no fallback call is made.
C7_NoFallbackWhenPostingsLeft ==
    /\ keptJobs >= 1 => ~Has("fallback:call")
    /\ Has("fallback:call") => keptJobs = 0

\* The primary search left a posting and the request ended without fallback.
C7_Witness ==
    keptJobs >= 1 /\ primaryReturned >= 1 /\ pc = "done" /\ ~Has("fallback:call")

\* The query C8 states: the first CV job title, else the first CV skill,
\* else "jobs" (a title or skill that is the empty string counts as none).
C8_ExpectedQuery ==
    IF Len(cvDetails.jobTitles) > 0 /\ cvDetails.jobTitles[1] # << >>
    THEN cvDetails.jobTitles[1]
    ELSE IF Len(cvDetails.skills) > 0 /\ cvDetails.skills[1] # << >>
    THEN cvDetails.skills[1]
    ELSE <<"j", "o", "b", "s">>

\* C8: when the job set left after the primary search, location filter and
\* deduplication is empty, exactly one fallback call is made, with the first
\* CV job title, else the first CV skill, else "jobs" as its query; its
\* results are location-filtered when a location is given and are not
\* deduplicated.
C8_FallbackOnceWithSingleTerm ==
    /\ Count("fallback:call") <= 1
    /\ (keptJobs = 0 /\ pc \in {"awaitFallback", "score", "done"}) =>
           /\ Count("fallback:call") = 1
           /\ fallbackQuery = C8_ExpectedQuery
    /\ Has("fallback:call") => Precedes("dedup", "fallback:call")
    /\ (Has("fallback:return") /\ Len(location) > 0 /\ Len(trim(location)) > 0) =>
           \A i \in 1..Len(jobs) :
               LET jobLocation == toLowerCase(jobs[i].location)
               IN  \/ includes(jobLocation, trim(toLowerCase(location)))
                   \/ includes(jobLocation, <<"r", "e", "m", "o", "t", "e">>)
                   \/ includes(jobLocation, <<"a", "n", "y", "w", "h", "e", "r", "e">>)
                   \/ includes(jobLocation, <<"w", "o", "r", "l", "d", "w", "i", "d", "e">>)

\* The fallback ran for CV facts with a job title and returned two postings
\* with the same (title, company) key, both kept.
C8_Witness ==
    /\ keptJobs = 0 /\ Has("fallback:return")
    /\ fallbackQuery = <<"J", "a", "v", "a", " ", "D", "e", "v">>
    /\ Len(jobs) = 2 /\ sameJobKey(jobs[1], jobs[2])

C10_PipelineOrder ==
    /\ (Has("primary:call") \/ Has("fallback:call")) =>
           /\ Has("extract:done")
           /\ Precedes("extract:done", "primary:call")
           /\ Precedes("extract:done", "fallback:call")
           /\ rPc = "idle" /\ rInFlight = 0 /\ rTimer = 0
    /\ pc = "extracting" => ~Has("extract:done")
    /\ Precedes("filter", "dedup")
    /\ (Has("dedup") /\ Len(location) > 0 /\ Len(trim(location)) > 0) => Has("filter")
    /\ Precedes("dedup", "decide")
    /\ Has("decide") => Has("dedup") \/ Has("searchAll:nokey")
    /\ Has("score") =>
           /\ Has("decide") /\ Precedes("decide", "score")
           /\ Has("primary:call") => Has("primary:return")
           /\ Precedes("primary:return", "score")
           /\ Has("fallback:call") => Has("fallback:return")
           /\ Precedes("fallback:return", "score")

\* A request with a location went through extraction, primary search, filter,
\* deduplication, fallback and scoring.
C10_Witness ==
    /\ pc = "done" /\ Has("filter") /\ Has("dedup")
    /\ Has("fallback:return") /\ Has("score")

\* The number of CV skills that substring-match some required skill of the
\* job, in either direction, ignoring case.
C19_MatchingCvSkills ==
    Cardinality({ i \in 1..Len(sCv.skills) :
        \E k \in 1..Len(sJob.requiredSkills) :
            \/ includes(toLowerCase(sJob.requiredSkills[k]), toLowerCase(sCv.skills[i]))
            \/ includes(toLowerCase(sCv.skills[i]), toLowerCase(sJob.requiredSkills[k])) })

\* C19: when job.requiredSkills and cvFacts.skills are both non-empty, the
\* skill pool adds exactly 40 * (matching CV skills) / (number of CV skills)
\* to the score and 40 to maxPossibleScore, so it never adds more than 40.
C19_SkillPoolIsFractionOfCvSkills ==
    (sPhase \in {"scored", "rescored"}
        /\ Len(sJob.requiredSkills) > 0 /\ Len(sCv.skills) > 0) =>
        /\ sPools.skillNum * Len(sCv.skills) = 40 * C19_MatchingCvSkills * sPools.skillDen
        /\ sPools.skillMax = 40
        /\ sPools.skillNum <= 40 * sPools.skillDen

\* The "N years" matches of the job text that ask for more than
\* experienceYears + 1 years.
C20_QualifyingMatches ==
    LET matches == yearMatches(toLowerCase(sJob.title \o <<" ">> \o sJob.description))
    IN  Cardinality({ k \in 1..Len(matches) : matches[k] > sCv.experienceYears + 1 })

C20_SeniorPenaltyApplies ==
    LET jobText == toLowerCase(sJob.title \o <<" ">> \o sJob.description)
    IN  /\ \/ includes(jobText, <<"s", "e", "n", "i", "o", "r">>)
           \/ includes(jobText, <<"l", "e", "a", "d">>)
           \/ includes(jobText, <<"m", "a", "n", "a", "g", "e", "r">>)
        /\ sCv.experienceYears < 3

\* C20, as stated: the experience penalty is never lower than -20, whatever
\* the number of "N years" matches and whether or not the -15 penalty
\* applied; the pool adds nothing positive and always adds 20 to
\* maxPossibleScore.
C20_PenaltySaturatesAtMinus20 ==
    sPhase \in {"scored", "rescored"} =>
        /\ sPools.penalty >= -20
        /\ sPools.penalty <= 0
        /\ sPools.experienceMax = 20

\* C20, amended: the penalty is 0, or -15 when the senior/lead/manager penalty
\* applied, when no "N years" match asks for more than experienceYears + 1;
\* with k >= 1 such matches it is -10 * (k + 1), or -(15 + 10 * k) when the
\* -15 penalty applied.  The pool adds nothing positive and always adds 20 to
\* maxPossibleScore.
C20_PenaltyGrowsWithMatches ==
    sPhase \in {"scored", "rescored"} =>
        /\ sPools.penalty =
               IF C20_QualifyingMatches = 0
               THEN (IF C20_SeniorPenaltyApplies THEN -15 ELSE 0)
               ELSE IF C20_SeniorPenaltyApplies
               THEN -(15 + 10 * C20_QualifyingMatches)
               ELSE -10 * (C20_QualifyingMatches + 1)
        /\ sPools.penalty <= 0
        /\ sPools.experienceMax = 20

\* Two "N years" matches ask for more than the CV has, after the -15 penalty.
C20_Witness ==
    /\ sPhase = "scored" /\ C20_QualifyingMatches = 2 /\ C20_SeniorPenaltyApplies
    /\ sPools.penalty = -35

\* C14: applyLocationFilter returns the job list unchanged when the requested
\* location is empty or blank; otherwise it keeps, in order, exactly the jobs
\* whose lowercased location contains the lowercased trimmed requested
\* location or contains "remote", "anywhere" or "worldwide".
C14_LocationFilterContract ==
    (fPhase = "done" /\ fOp = "filter") =>
        LET wanted == trim(toLowerCase(fArg.location))
            passes(job) ==
                \/ includes(toLowerCase(job.location), wanted)
                \/ \E word \in { <<"r", "e", "m", "o", "t", "e">>, <<"a", "n", "y", "w", "h", "e", "r", "e">>, <<"w", "o", "r", "l", "d", "w", "i", "d", "e">> } :
                       includes(toLowerCase(job.location), word)
        IN  IF \A i \in 1..Len(fArg.location) : fArg.location[i] = " "
            THEN fOut = fArg.jobs
            ELSE fOut = SelectSeq(fArg.jobs, passes)

\* With " paris " requested, a Berlin posting was dropped and a WORLDWIDE
\* posting kept.
C14_Witness ==
    /\ fPhase = "done" /\ fOp = "filter" /\ fArg.location = <<" ", "p", "a", "r", "i", "s", " ">>
    /\ Len(fArg.jobs) = 2 /\ Len(fOut) = 1
    /\ fArg.jobs[1].location = <<"B", "e", "r", "l", "i", "n", ",", " ", "B", "E">>
    /\ fOut[1].location = <<"W", "O", "R", "L", "D", "W", "I", "D", "E">>

C18_HasChar(text, c) == \E i \in 1..Len(text) : text[i] = c

\* C18, as stated: for every raw model text made of leading prose, a fenced
\* JSON object and trailing prose, cleanJsonResponse returns exactly the
\* enclosed object text; when the text has no braces it returns the trimmed
\* text.
C18_CleanYieldsEnclosedObject ==
    (fPhase = "done" /\ fOp = "clean") =>
        /\ fArg.kind = "fenced" => fOut = fArg.json
        /\ (~C18_HasChar(fArg.text, "{") /\ ~C18_HasChar(fArg.text, "}")) =>
               fOut = trim(fArg.text)

\* C18, amended: for every raw model text made of leading prose without "{",
\* a fenced JSON object and trailing prose without "}", cleanJsonResponse
\* returns exactly the enclosed object text; when the text has no "{" or no
\* "}" it returns the text without its fences, trimmed, which holds no fence.
C18_CleanYieldsObjectOfBraceFreeProse ==
    (fPhase = "done" /\ fOp = "clean") =>
        /\ (fArg.kind = "fenced" /\ ~C18_HasChar(fArg.pre, "{")
               /\ ~C18_HasChar(fArg.post, "}")) => fOut = fArg.json
        /\ (~C18_HasChar(fArg.text, "{") \/ ~C18_HasChar(fArg.text, "}")) =>
               /\ ~\E i \in 1..Len(fOut) : startsWithAt(fOut, <<"backtick", "backtick", "backtick">>, i)
               /\ fOut = trim(fOut)
               /\ (~\E i \in 1..Len(fArg.text) : startsWithAt(fArg.text, <<"backtick", "backtick", "backtick">>, i)) =>
                      fOut = trim(fArg.text)

\* A nested object between prose and fences came back exactly.
C18_Witness ==
    /\ fPhase = "done" /\ fOp = "clean" /\ fArg.kind = "fenced"
    /\ fArg.pre = <<"H", "e", "r", "e", " ", "i", "t", " ", "i", "s", ":", "\n">> /\ fArg.post = <<"\n", "D", "o", "n", "e", ".">>
    /\ fArg.json = <<"{", "\"", "a", "\"", ":", "{", "\"", "b", "\"", ":", "2", "}", "}">> /\ fOut = fArg.json

\* The scores of the first n jobs of the list, in the order of the list.
RECURSIVE C11_Scores(_, _, _)
C11_Scores(jobList, cvFacts, n) ==
    IF n = 0 THEN << >>
    ELSE Append(C11_Scores(jobList, cvFacts, n - 1),
                calculateRelevanceScore(jobList[n], cvFacts))

\* The place a job of the unsorted list takes when the list is sorted by
\* score, highest first, jobs of equal score in their original order.
C11_Rank(scores, i) ==
    1 + Cardinality({ j \in 1..Len(scores) :
            scores[j] > scores[i] \/ (scores[j] = scores[i] /\ j < i) })

\* C11: in every success response the jobs list is sorted by relevanceScore
\* in descending order, jobs of equal score keep the order they had before
\* sorting, and the list has at most 25 entries, the first 25 of the sorted
\* sequence.
C11_SortedStableTop25 ==
    (pc = "done" /\ response.status = 200) =>
        LET scores == C11_Scores(jobs, cvDetails, Len(jobs))
            out == response.jobs
        IN  /\ Len(out) = IF Len(jobs) < 25 THEN Len(jobs) ELSE 25
            /\ \A k \in 1..(Len(out) - 1) :
                   out[k].relevanceScore >= out[k + 1].relevanceScore
            /\ \A i \in 1..Len(jobs) :
                   C11_Rank(scores, i) <= 25 =>
                       /\ out[C11_Rank(scores, i)].relevanceScore = scores[i]
                       /\ out[C11_Rank(scores, i)].title = jobs[i].title
                       /\ out[C11_Rank(scores, i)].company = jobs[i].company
                       /\ out[C11_Rank(scores, i)].description = jobs[i].description

\* More than 25 postings were scored, 25 were returned, and two of them
\* have the same score.
C11_Witness ==
    /\ pc = "done" /\ response.status = 200
    /\ Len(jobs) > 25 /\ Len(response.jobs) = 25
    /\ response.jobs[1].relevanceScore = response.jobs[2].relevanceScore
    /\ response.jobs[1].relevanceScore > response.jobs[25].relevanceScore

\* C12: in every success response returnedJobs is the length of the jobs
\* list, searchLocation is the requested location when one is given and
\* "All locations" when none is given, and averageRelevanceScore is 0 when
\* the jobs list is empty.
C12_SummaryMatchesJobs ==
    (pc = "done" /\ response.status = 200) =>
        /\ response.returnedJobs = Len(response.jobs)
        /\ response.searchLocation =
               IF location # << >> THEN location ELSE <<"A", "l", "l", " ", "l", "o", "c", "a", "t", "i", "o", "n", "s">>
        /\ Len(response.jobs) = 0 => response.averageTenths = 0

\* A request without location got an empty success response.
C12_Witness ==
    /\ pc = "done" /\ response.status = 200 /\ location = << >>
    /\ response.returnedJobs = 0 /\ response.searchLocation = <<"A", "l", "l", " ", "l", "o", "c", "a", "t", "i", "o", "n", "s">>
    /\ Has("fallback:return")

C13_Key(job) == <<trim(toLowerCase(job.title)), trim(toLowerCase(job.company))>>

\* The positions of the list that hold the first posting of their key.
C13_Firsts(list) ==
    { i \in 1..Len(list) : \A k \in 1..(i - 1) : C13_Key(list[k]) # C13_Key(list[i]) }

C13_Deduplicated(before, after) ==
    /\ \A m, n \in 1..Len(after) : C13_Key(after[m]) = C13_Key(after[n]) => m = n
    /\ Len(after) = Cardinality(C13_Firsts(before))
    /\ \A i \in C13_Firsts(before) :
           after[Cardinality({k \in C13_Firsts(before) : k <= i})] = before[i]

\* C13: the output of the deduplication in searchAllJobs holds no two
\* postings with the same trimmed, lowercased title and company; of every
\* key of the input exactly one posting survives, the first in arrival
\* order; the surviving postings keep their relative order.
C13_DedupKeepsFirstOfEachKey ==
    [][(pc = "dedup" /\ pc' = "decide") => C13_Deduplicated(jobs, jobs')]_vars

\* Two postings with one key came back from the primary call and one is left.
C13_Witness ==
    /\ Has("dedup") /\ ~Has("filter") /\ primaryReturned = 2 /\ keptJobs = 1
    /\ pc = "decide" /\ jobs[1].title = <<"s", "e", "n", "i", "o", "r", " ", "j", "a", "v", "a", " ", "d", "e", "v", " ">>

\* C15: the query string sent to the job-search API in the primary search
\* holds only the first 3 space-delimited tokens of the built query; a
\* location is never merged into it.
C15_QueryIsFirstThreeTokens ==
    Has("primary:call") =>
        primaryQuery = join(slice(split(buildSearchQuery(cvDetails)), 3), <<" ">>)

\* C16: extractCVDetails returns a well-typed record: a field that is
\* missing or of the wrong type in the model's answer holds its zero value,
\* so education is a string and experienceYears an integer >= 0.
C16_FactsWellTyped ==
    Has("extract:done") =>
        /\ cvDetails.education.t = "string"
        /\ cvDetails.experienceYears >= 0

\* C17: an error that leaves the pipeline steps of a request is answered
\* with HTTP 500, code SERVER_ERROR and a fixed message: the body is the
\* same for every error and holds nothing of it.
C17_ServerErrorIsGeneric ==
    thrown.kind = "error" =>
        /\ pc \in {"caught", "done"}
        /\ pc = "done" =>
               /\ response.status = 500
               /\ response.code = "SERVER_ERROR"
               /\ response.error = <<"F", "a", "i", "l", "e", "d", " ", "t", "o", " ", "p", "r", "o", "c", "e", "s", "s", " ", "y", "o", "u", "r", " ", "r", "e", "q", "u", "e", "s", "t">>
               /\ response.jobs = << >>
               /\ response.error # thrown.text

\* The deduplication raised a TypeError and the request got the fixed 500.
C17_Witness ==
    /\ pc = "done" /\ response.status = 500
    /\ thrown = ErrorResult(<<"j", ".", "t", "i", "t", "l", "e", ".", "t", "o", "L", "o", "w", "e", "r", "C", "a", "s", "e", " ", "i", "s", " ", "n", "o", "t", " ", "a", " ", "f", "u", "n", "c", "t", "i", "o", "n">>)

\* The least whole number of days that covers a span of time.
C21_DaysRoundedUp(span) ==
    CHOOSE d \in 0..(span \div MinutesPerDay + 1) :
        d * MinutesPerDay >= span /\ (d - 1) * MinutesPerDay < span

\* The text the claim gives for d days.
C21_TextFor(d) ==
    IF d = 1 THEN <<"1", " ", "d", "a", "y", " ", "a", "g", "o">>
    ELSE IF d \in 2..6 THEN numberToString(d) \o <<" ", "d", "a", "y", "s", " ", "a", "g", "o">>
    ELSE IF d \in 7..13 THEN <<"1", " ", "w", "e", "e", "k", " ", "a", "g", "o">>
    ELSE IF d \in 14..29 THEN numberToString(d \div 7) \o <<" ", "w", "e", "e", "k", "s", " ", "a", "g", "o">>
    ELSE numberToString(d \div 30) \o <<" ", "m", "o", "n", "t", "h", "s", " ", "a", "g", "o">>

C21_Called == fOp = "formatDate" /\ fPhase = "done" /\ dateParse(fArg.dateString).valid

\* C21, as stated: with d the number of whole days elapsed between the
\* timestamp and now, d = 1 gives "1 day ago", 2..6 "d days ago", 7..13
\* "1 week ago", 14..29 "floor(d/7) weeks ago", d >= 30 "floor(d/30) months
\* ago".
C21_WholeDaysElapsedDecideText ==
    (C21_Called /\ fArg.now >= dateParse(fArg.dateString).time) =>
        LET d == (fArg.now - dateParse(fArg.dateString).time) \div MinutesPerDay
        IN  d >= 1 => fOut = C21_TextFor(d)

\* C21, amended: the same table holds with d the time between the timestamp
\* and now in days, rounded up to a whole number.
C21_DaysRoundedUpDecideText ==
    C21_Called =>
        LET d == C21_DaysRoundedUp(Abs(fArg.now - dateParse(fArg.dateString).time))
        IN  d >= 1 => fOut = C21_TextFor(d)

\* formatDate was called 14 days and 5 minutes after the timestamp and
\* returned "2 weeks ago".
C21_Witness ==
    /\ C21_Called
    /\ fArg.now - dateParse(fArg.dateString).time = 20165
    /\ fOut = <<"2", " ", "w", "e", "e", "k", "s", " ", "a", "g", "o">>

\* C22: formatDate returns "Recently" for every timestamp text that cannot
\* be read as a date.
C22_UnparseableGivesRecently ==
    (fOp = "formatDate" /\ fPhase = "done" /\ ~dateParse(fArg.dateString).valid) =>
        fOut = <<"R", "e", "c", "e", "n", "t", "l", "y">>

\* C23: the posting of the fallback path equals the posting of the primary
\* normalization in every field but posted, always "Recently", and salary,
\* always "Not specified".
C23_FallbackNormalizesAsPrimary ==
    (fOp = "normalize" /\ fPhase = "done") =>
        /\ fOut.fallback = fOut.primary
        /\ fOut.fallbackDetails =
               [fOut.primaryDetails EXCEPT !.posted = <<"R", "e", "c", "e", "n", "t", "l", "y">>,
                                           !.salary = <<"N", "o", "t", " ", "s", "p", "e", "c", "i", "f", "i", "e", "d">>]

\* C24: every request, whatever its body and whatever the external calls
\* do, is answered with exactly one response, of status 200, 400 or 500,
\* provided every external call eventually returns or fails.
C24_EveryRequestAnsweredOnce ==
    /\ <>(pc = "done" /\ response.status \in {200, 400, 500})
    /\ [][response # NoResponse => response' = response]_vars

\* C25: once a POST /generate-questions request has finished, with any
\* outcome, every interview session row has at least one question row.
C25_NoSessionWithoutQuestions ==
    qPc \in {"done", "crashed"} =>
        \A i \in 1..Len(sessions) : questionsOfSession(sessions[i].id) # {}

====
